---- MODULE Spec2Model ----
(***************************************************************************)
(* streamweave: hook runner, builtin hooks, access resolution and the      *)
(* harvest flow, as state machines.                                        *)
(*                                                                         *)
(* Text values (paths, filenames, glob patterns) are sequences of          *)
(* one-character strings, so that fnmatch and the f-string path            *)
(* concatenations are computed, not looked up.                             *)
(***************************************************************************)
EXTENDS Integers, Sequences, FiniteSets, TLC

\* ---------------------------------------------------------------- bounds
\* longest hook_configs list handed to run_hooks in SpecHooks
MaxHooks == 2
\* HookConfig.priority ranges over 0..MaxPriority
MaxPriority == 1
\* SpecAccess: most rows the membership and grant tables hold together
MaxRows == 4
\* harvest: the runs started in one behaviour
MaxStarts == 2

\* ---------------------------------------------------------------- text
EmptyStr == <<>>
S_a_tmp == <<"a", ".", "t", "m", "p">>
S_b_tif == <<"b", ".", "t", "i", "f">>
S_e == <<"e">>
S_slash == <<"/">>
S_star == <<"*">>
S_star_tmp == <<"*", ".", "t", "m", "p">>
S_star_tif == <<"*", ".", "t", "i", "f">>
S_alt == <<"/", "a", "l", "t">>
S_store == <<"/", "s", "t">>

\* f"{a}/{b}"
JoinPath(a, b) == a \o S_slash \o b

\* fnmatch.fnmatch(name, pat) on POSIX: the whole name must match; "*" matches
\* any run of characters ("/" included), "?" one character.
RECURSIVE GlobFrom(_, _, _, _)
GlobFrom(name, i, pat, j) ==
    IF j > Len(pat) THEN i > Len(name)
    ELSE IF pat[j] = "*"
         THEN GlobFrom(name, i, pat, j + 1)
              \/ (i <= Len(name) /\ GlobFrom(name, i + 1, pat, j))
    ELSE IF pat[j] = "?"
         THEN i <= Len(name) /\ GlobFrom(name, i + 1, pat, j + 1)
    ELSE i <= Len(name) /\ name[i] = pat[j] /\ GlobFrom(name, i + 1, pat, j + 1)

FnMatch(name, pat) == GlobFrom(name, 1, pat, 1)

\* index of the first occurrence of character c in s, 0 when absent
RECURSIVE IndexOf(_, _, _)
IndexOf(s, c, i) ==
    IF i > Len(s) THEN 0 ELSE IF s[i] = c THEN i ELSE IndexOf(s, c, i + 1)

\* index of the last occurrence of character c in s, 0 when absent
RECURSIVE LastIndexOf(_, _, _)
LastIndexOf(s, c, i) ==
    IF i < 1 THEN 0 ELSE IF s[i] = c THEN i ELSE LastIndexOf(s, c, i - 1)

\* ---------------------------------------------------------------- dicts
EmptyDict == [k \in {} |-> EmptyStr]

\* the mutant of DictUpdate: the value already present is kept
DictUpdateKeepFirst(d, u) ==
    [k \in (DOMAIN d) \cup (DOMAIN u) |-> IF k \in DOMAIN d THEN d[k] ELSE u[k]]

\* dict.update: d with every key of u set to u's value
DictUpdate(d, u) ==
    [k \in (DOMAIN d) \cup (DOMAIN u) |-> IF k \in DOMAIN u THEN u[k] ELSE d[k]]

\* ---------------------------------------------------------------- hook types
HookTriggers == {"pre_transfer", "post_transfer"}
HookImplementations == {"builtin", "python_script", "http_webhook"}
HookActions == {"proceed", "skip", "redirect"}

\* HookResult(action=..., ...) with the dataclass defaults
HookResult(action, metadata_updates, access_grants, redirect_path, message) ==
    [action |-> action, metadata_updates |-> metadata_updates,
     access_grants |-> access_grants, redirect_path |-> redirect_path,
     message |-> message]

\* HookContext as harvest builds it before the pre-transfer phase
HookContext(source_path, filename, instrument_id, instrument_name, size_bytes, destination_path) ==
    [source_path |-> source_path, filename |-> filename,
     instrument_id |-> instrument_id, instrument_name |-> instrument_name,
     size_bytes |-> size_bytes, metadata |-> EmptyDict,
     destination_path |-> destination_path, transfer_success |-> FALSE,
     checksum |-> EmptyStr]

\* what a call that may raise gives back
Raised(step) == [raised |-> TRUE, step |-> step,
                 result |-> HookResult("proceed", EmptyDict, <<>>, EmptyStr, <<>>)]
Returned(result) == [raised |-> FALSE, step |-> "returned", result |-> result]

\* ---------------------------------------------------------------- file_filter
FileMatches(context, pattern) ==
    FnMatch(context.filename, pattern) \/ FnMatch(context.source_path, pattern)

\* first redirect rule with a pattern, a destination and a match; 0 when none
RECURSIVE FirstRedirect(_, _, _)
FirstRedirect(context, rules, i) ==
    IF i > Len(rules) THEN 0
    ELSE IF rules[i].pattern # EmptyStr /\ rules[i].destination # EmptyStr
            /\ FileMatches(context, rules[i].pattern)
         THEN i
    ELSE FirstRedirect(context, rules, i + 1)

\* first pattern of the list that matches; 0 when none
RECURSIVE FirstMatch(_, _, _)
FirstMatch(context, patterns, i) ==
    IF i > Len(patterns) THEN 0
    ELSE IF FileMatches(context, patterns[i]) THEN i
    ELSE FirstMatch(context, patterns, i + 1)

\* the hook looking at the exclude patterns before the redirect rules
FileFilterExcludeFirst(config, context) ==
    LET r == FirstRedirect(context, config.redirect_rules, 1)
        x == FirstMatch(context, config.exclude_patterns, 1)
    IN  IF x # 0
        THEN HookResult("skip", EmptyDict, <<>>, EmptyStr,
                        <<"Excluded by pattern", config.exclude_patterns[x]>>)
        ELSE IF r # 0
        THEN HookResult("redirect", EmptyDict, <<>>, config.redirect_rules[r].destination,
                        <<"Redirected by pattern", config.redirect_rules[r].pattern>>)
        ELSE HookResult("proceed", EmptyDict, <<>>, EmptyStr, <<>>)

\* file_filter.py:19-55: FileFilterHook.execute; no key of the config but
\* redirect_rules, exclude_patterns and include_patterns is read
FileFilterExecute(config, context) ==
    LET r == FirstRedirect(context, config.redirect_rules, 1)
        x == FirstMatch(context, config.exclude_patterns, 1)
        n == FirstMatch(context, config.include_patterns, 1)
    IN  IF r # 0
        THEN HookResult("redirect", EmptyDict, <<>>, config.redirect_rules[r].destination,
                        <<"Redirected by pattern", config.redirect_rules[r].pattern>>)
        ELSE IF x # 0
        THEN HookResult("skip", EmptyDict, <<>>, EmptyStr,
                        <<"Excluded by pattern", config.exclude_patterns[x]>>)
        ELSE IF config.include_patterns # <<>> /\ n = 0
        THEN HookResult("skip", EmptyDict, <<>>, EmptyStr,
                        <<"Not matched by any include pattern">>)
        ELSE HookResult("proceed", EmptyDict, <<>>, EmptyStr, <<>>)

\* ---------------------------------------------------------------- metadata_enrichment
\* The regular expressions of the model, each with what re.search does with it:
\*   RE_HEAD  (?P<k>^[^/.]+)     the leading run without "/" and "." (group k)
\*   RE_EXT   \.(?P<ext>[^./]+)$ the text after the last "." (group ext)
\*   RE_BAD   (?P<k              does not compile: re.error
RE_HEAD == "(?P<k>^[^/.]+)"
RE_EXT == "\\.(?P<ext>[^./]+)$"
RE_BAD == "(?P<k"
RE_NONE == ""

HeadLen(text) ==
    LET s == IndexOf(text, "/", 1)
        d == IndexOf(text, ".", 1)
        ends == {p \in {s, d} : p # 0}
    IN  IF ends = {} THEN Len(text)
        ELSE (CHOOSE p \in ends : \A q \in ends : p <= q) - 1

\* re.search(pattern, text): [raised, matched, groups]
ReSearch(pattern, text) ==
    IF pattern = RE_BAD
    THEN [raised |-> TRUE, matched |-> FALSE, groups |-> EmptyDict]
    ELSE IF pattern = RE_HEAD
    THEN IF HeadLen(text) >= 1
         THEN [raised |-> FALSE, matched |-> TRUE,
               groups |-> [g \in {"k"} |-> SubSeq(text, 1, HeadLen(text))]]
         ELSE [raised |-> FALSE, matched |-> FALSE, groups |-> EmptyDict]
    ELSE LET d == LastIndexOf(text, ".", Len(text))
         IN  IF d # 0 /\ d < Len(text) /\ IndexOf(SubSeq(text, d + 1, Len(text)), "/", 1) = 0
             THEN [raised |-> FALSE, matched |-> TRUE,
                   groups |-> [g \in {"ext"} |-> SubSeq(text, d + 1, Len(text))]]
             ELSE [raised |-> FALSE, matched |-> FALSE, groups |-> EmptyDict]

\* the loop over config["rules"]: [raised, metadata_updates]
RECURSIVE EnrichFrom(_, _, _, _)
EnrichFrom(rules, context, i, metadata_updates) ==
    IF i > Len(rules) THEN [raised |-> FALSE, metadata_updates |-> metadata_updates]
    ELSE IF rules[i].pattern = RE_NONE
         THEN EnrichFrom(rules, context, i + 1, metadata_updates)
    ELSE LET text == IF rules[i].source = "path" THEN context.source_path
                     ELSE context.filename
             m == ReSearch(rules[i].pattern, text)
         IN  IF m.raised THEN [raised |-> TRUE, metadata_updates |-> metadata_updates]
             ELSE IF m.matched
                  THEN EnrichFrom(rules, context, i + 1,
                                  DictUpdate(metadata_updates, m.groups))
             ELSE EnrichFrom(rules, context, i + 1, metadata_updates)

MetadataEnrichmentExecute(config, context) ==
    LET e == EnrichFrom(config.rules, context, 1, EmptyDict)
    IN  IF e.raised THEN Raised("execute_raised")
        ELSE Returned(HookResult("proceed", e.metadata_updates, <<>>, EmptyStr, <<>>))

\* ---------------------------------------------------------------- access_assignment
\* a grant request as the hook emits it: a literal one carries grantee_id, a
\* deferred one resolve_field and resolve_value
LiteralGrant(grantee_type, grantee_id) ==
    [kind |-> "grantee_id", grantee_type |-> grantee_type, grantee_id |-> grantee_id,
     resolve_field |-> "", resolve_value |-> EmptyStr]
DeferredGrant(grantee_type, field, value) ==
    [kind |-> "resolve_value", grantee_type |-> grantee_type, grantee_id |-> "",
     resolve_field |-> field, resolve_value |-> value]

RECURSIVE AssignFrom(_, _, _, _)
AssignFrom(rules, context, i, access_grants) ==
    IF i > Len(rules) THEN access_grants
    ELSE LET rule == rules[i]
         IN  IF rule.grantee_type = "" \/ rule.match_field = ""
             THEN AssignFrom(rules, context, i + 1, access_grants)
             ELSE IF rule.source = "literal"
             THEN AssignFrom(rules, context, i + 1,
                      Append(access_grants, LiteralGrant(rule.grantee_type, rule.match_field)))
             ELSE IF rule.source = "metadata"
                     /\ rule.match_field \in DOMAIN context.metadata
                     /\ context.metadata[rule.match_field] # EmptyStr
             THEN AssignFrom(rules, context, i + 1,
                      Append(access_grants,
                             DeferredGrant(rule.grantee_type, rule.match_field,
                                           context.metadata[rule.match_field])))
             ELSE AssignFrom(rules, context, i + 1, access_grants)

AccessAssignmentExecute(config, context) ==
    HookResult("proceed", EmptyDict, AssignFrom(config.grants, context, 1, <<>>),
               EmptyStr, <<>>)

\* ---------------------------------------------------------------- registry
BUILTIN_HOOKS == {"file_filter", "metadata_enrichment", "access_assignment"}

\* HookConfig.config with every key the three builtins read
HookSettings(redirect_rules, exclude_patterns, include_patterns, rules, grants) ==
    [redirect_rules |-> redirect_rules, exclude_patterns |-> exclude_patterns,
     include_patterns |-> include_patterns, rules |-> rules, grants |-> grants]

\* get_hook: does the lookup raise (unknown builtin name, unsupported kind)
GetHookRaises(hook_config) ==
    \/ hook_config.implementation # "builtin"
    \/ hook_config.builtin_name \notin BUILTIN_HOOKS

\* get_hook(hook_config) followed by hook.execute(context)
HookCall(hook_config, context) ==
    IF GetHookRaises(hook_config) THEN Raised("lookup_raised")
    ELSE IF hook_config.builtin_name = "file_filter"
         THEN Returned(FileFilterExecute(hook_config.config, context))
    ELSE IF hook_config.builtin_name = "metadata_enrichment"
         THEN MetadataEnrichmentExecute(hook_config.config, context)
    ELSE Returned(AccessAssignmentExecute(hook_config.config, context))

\* ---------------------------------------------------------------- runner
\* the element of a set of one element: The({F(x) : x \in {e}}) is F(e) with
\* e evaluated once and bound to x, as an assignment of the code binds its name
The(S) == CHOOSE x \in S : TRUE

\* the mutant of IsRelevant: the enabled flag is not looked at
IsRelevantIgnoringEnabled(hook_config, trigger) == hook_config.trigger = trigger

\* runner.py:25, the filter of the list comprehension
IsRelevant(hook_config, trigger) ==
    hook_config.trigger = trigger /\ hook_config.enabled

\* the mutant of InsertByPriority: a hook goes before the hooks of its own priority
InsertBeforeEqual(hook_configs, sorted, i) ==
    LET before == SelectSeq(sorted, LAMBDA j : hook_configs[j].priority < hook_configs[i].priority)
        after == SelectSeq(sorted, LAMBDA j : hook_configs[j].priority >= hook_configs[i].priority)
    IN  before \o <<i>> \o after

\* sorted() is stable: position i goes after every position already placed whose
\* priority is not larger
InsertByPriority(hook_configs, sorted, i) ==
    LET before == SelectSeq(sorted, LAMBDA j : hook_configs[j].priority <= hook_configs[i].priority)
        after == SelectSeq(sorted, LAMBDA j : hook_configs[j].priority > hook_configs[i].priority)
    IN  before \o <<i>> \o after

RECURSIVE SortFrom(_, _, _, _)
SortFrom(hook_configs, trigger, i, sorted) ==
    IF i > Len(hook_configs) THEN sorted
    ELSE IF IsRelevant(hook_configs[i], trigger)
         THEN SortFrom(hook_configs, trigger, i + 1, InsertByPriority(hook_configs, sorted, i))
    ELSE SortFrom(hook_configs, trigger, i + 1, sorted)

\* runner.py:24-27: the positions of hook_configs that run, in running order
Relevant(hook_configs, trigger) == SortFrom(hook_configs, trigger, 1, <<>>)

\* the mutant of ShortCircuits: only skip stops the pre-transfer phase
ShortCircuitsOnSkipOnly(trigger, result) ==
    trigger = "pre_transfer" /\ result.action = "skip"

\* runner.py:41-45
ShortCircuits(trigger, result) ==
    trigger = "pre_transfer" /\ result.action \in {"skip", "redirect"}

\* the mutant of Caught: an exception of the lookup is not caught
CaughtOnlyFromExecute(call) == call.step = "execute_raised"

\* runner.py:37, except Exception around the lookup and the execution
Caught(call) == call.step \in {"lookup_raised", "execute_raised"}

\* the mutant of MergeGrants: the grant requests of the last hook replace the others
MergeGrantsKeepLast(trigger, merged_access_grants, result) ==
    IF trigger = "pre_transfer" THEN merged_access_grants
    ELSE IF result.access_grants = <<>> THEN merged_access_grants
    ELSE result.access_grants

\* runner.py:50, only in the post-transfer branch
MergeGrants(trigger, merged_access_grants, result) ==
    IF trigger = "pre_transfer" THEN merged_access_grants
    ELSE merged_access_grants \o result.access_grants

\* runner.py:33-54: the loop; trace records every hook the loop reached and how
\* its call ended; the outcome of get_hook and execute is bound once (35-36)
RECURSIVE RunLoop(_, _, _, _, _, _, _)
RunLoop(trigger, context, hook_configs, relevant, merged_metadata, merged_access_grants, trace) ==
    IF relevant = <<>>
    THEN [raised |-> FALSE,
          result |-> HookResult("proceed", merged_metadata, merged_access_grants,
                                EmptyStr, <<>>),
          trace |-> trace]
    ELSE The({LET i == Head(relevant)
                  seen == Append(trace, [hook |-> i, step |-> call.step])
              IN  IF call.raised
                  THEN IF Caught(call)
                       THEN RunLoop(trigger, context, hook_configs, Tail(relevant),
                                    merged_metadata, merged_access_grants, seen)
                       ELSE [raised |-> TRUE, result |-> call.result, trace |-> seen]
                  ELSE IF ShortCircuits(trigger, call.result)
                  THEN [raised |-> FALSE, result |-> call.result, trace |-> seen]
                  ELSE RunLoop(trigger, context, hook_configs, Tail(relevant),
                               DictUpdate(merged_metadata, call.result.metadata_updates),
                               MergeGrants(trigger, merged_access_grants, call.result),
                               seen) :
              call \in {HookCall(hook_configs[Head(relevant)], context)}})

\* run_hooks(trigger, context, hook_configs): [raised, result, trace]
RunHooks(trigger, context, hook_configs) ==
    RunLoop(trigger, context, hook_configs, Relevant(hook_configs, trigger),
            EmptyDict, <<>>, <<>>)

\* a run_hooks that writes the metadata it merged into the context
ContextAfterWithMetadata(trigger, context, hook_configs) ==
    LET out == RunHooks(trigger, context, hook_configs)
    IN  IF out.raised \/ ShortCircuits(trigger, out.result) THEN context
        ELSE [context EXCEPT !.metadata = DictUpdate(@, out.result.metadata_updates)]

\* the HookContext object after run_hooks(trigger, context, hook_configs):
\* run_hooks passes the object to every hook.execute (runner.py:36), and
\* neither the loop nor an execute method of the three builtins assigns to
\* one of its attributes or to its metadata dict; they only read
\* source_path, filename and metadata
ContextAfter(trigger, context, hook_configs) == context

\* ---------------------------------------------------------------- hook inputs
NoSettings == HookSettings(<<>>, <<>>, <<>>, <<>>, <<>>)

\* the configurations SpecHooks draws hooks from, by what they do on a.tmp
HookKinds ==
    { \* file_filter, exclude *.tmp: skip
      [implementation |-> "builtin", builtin_name |-> "file_filter",
       config |-> HookSettings(<<>>, <<S_star_tmp>>, <<>>, <<>>, <<>>)],
      \* file_filter, redirect everything to /alt: redirect
      [implementation |-> "builtin", builtin_name |-> "file_filter",
       config |-> HookSettings(<<[pattern |-> S_star, destination |-> S_alt]>>,
                               <<>>, <<>>, <<>>, <<>>)],
      \* metadata_enrichment on the path: k = "e"
      [implementation |-> "builtin", builtin_name |-> "metadata_enrichment",
       config |-> HookSettings(<<>>, <<>>, <<>>,
                               <<[pattern |-> RE_HEAD, source |-> "path"]>>, <<>>)],
      \* metadata_enrichment on the filename: k = "a", ext = "tmp"
      [implementation |-> "builtin", builtin_name |-> "metadata_enrichment",
       config |-> HookSettings(<<>>, <<>>, <<>>,
                               <<[pattern |-> RE_HEAD, source |-> "filename"],
                                 [pattern |-> RE_EXT, source |-> "filename"]>>, <<>>)],
      \* access_assignment, one literal grant
      [implementation |-> "builtin", builtin_name |-> "access_assignment",
       config |-> HookSettings(<<>>, <<>>, <<>>, <<>>,
                               <<[grantee_type |-> "user", match_field |-> "u1",
                                  source |-> "literal"]>>)],
      \* metadata_enrichment with a pattern that does not compile: execute raises
      [implementation |-> "builtin", builtin_name |-> "metadata_enrichment",
       config |-> HookSettings(<<>>, <<>>, <<>>,
                               <<[pattern |-> RE_BAD, source |-> "path"]>>, <<>>)],
      \* unknown builtin name: the lookup raises
      [implementation |-> "builtin", builtin_name |-> "virus_scan",
       config |-> NoSettings],
      \* unsupported implementation kind: the lookup raises
      [implementation |-> "python_script", builtin_name |-> "",
       config |-> NoSettings] }

MakeHook(kind, trigger, priority, enabled) ==
    [implementation |-> kind.implementation, builtin_name |-> kind.builtin_name,
     config |-> kind.config, trigger |-> trigger, priority |-> priority,
     enabled |-> enabled]

SkipKind == CHOOSE k \in HookKinds :
    k.builtin_name = "file_filter" /\ k.config.exclude_patterns # <<>>

\* every enabled hook, and per trigger one disabled hook that would skip
HookUniverse ==
    { MakeHook(k, t, p, TRUE) : k \in HookKinds, t \in HookTriggers, p \in 0..MaxPriority }
    \cup { MakeHook(SkipKind, t, 0, FALSE) : t \in HookTriggers }

HookLists == UNION { [1..n -> HookUniverse] : n \in 0..MaxHooks }

TestContext ==
    HookContext(JoinPath(S_e, S_a_tmp), S_a_tmp, "i1", S_e, 10,
                JoinPath(JoinPath(S_store, S_e), JoinPath(S_e, S_a_tmp)))

\* ---------------------------------------------------------------- access
\* Primary keys are UUIDs in every table; the model numbers them, and the same
\* number may be the key of a user, of a group and of a project.
Users == {1, 2}
Groups == {1}
Projects == {1}
Files == {1, 2}
\* what a grantee_id or member_id column may hold (neither has a foreign key)
AnyId == Users \cup Groups \cup Projects
NoUser == 0
GranteeTypes == {"user", "group", "project"}
MemberTypes == {"user", "group"}

\* access.py:24, select(GroupMembership.group_id).where(user_id == user.id)
UserGroups(gm, u) == {m[1] : m \in {x \in gm : x[2] = u}}

\* access.py:26-29
UserProjectsDirect(pm, u) ==
    {m.project_id : m \in {x \in pm : x.member_type = "user" /\ x.member_id = u}}

\* the mutant of UserProjectsViaGroup: every group member of a project counts
UserProjectsViaAnyGroup(gm, pm, u) ==
    {m.project_id : m \in {x \in pm : x.member_type = "group"}}

\* access.py:30-33
UserProjectsViaGroup(gm, pm, u) ==
    {m.project_id : m \in {x \in pm : x.member_type = "group"
                                      /\ x.member_id \in UserGroups(gm, u)}}

\* access.py:34, union_all of the two selects
UserProjects(gm, pm, u) == UserProjectsDirect(pm, u) \cup UserProjectsViaGroup(gm, pm, u)

\* the mutant of GrantMatches: the grantee type is not compared
GrantMatchesAnyType(gm, pm, g, u) ==
    \/ g.grantee_id = u
    \/ g.grantee_id \in UserGroups(gm, u)
    \/ g.grantee_id \in UserProjects(gm, pm, u)

\* access.py:37-45, the or_ of the three grantee types
GrantMatches(gm, pm, g, u) ==
    \/ (g.grantee_type = "user" /\ g.grantee_id = u)
    \/ (g.grantee_type = "group" /\ g.grantee_id \in UserGroups(gm, u))
    \/ (g.grantee_type = "project" /\ g.grantee_id \in UserProjects(gm, pm, u))

\* accessible_file_ids(user)
AccessibleFileIds(gm, pm, gr, u) == {g.file_id : g \in {x \in gr : GrantMatches(gm, pm, x, u)}}

\* apply_file_access_filter(query, user), query being the ids of the
\* FileRecord rows selected: the ids of the rows left
ApplyFileAccessFilter(query, admins, owner, gm, pm, gr, u) ==
    IF u \in admins THEN query
    ELSE LET accessible == AccessibleFileIds(gm, pm, gr, u)
         IN  {f \in query : owner[f] = u \/ f \in accessible}

\* An optional value is <<>> for None and <<x>> for the value x.
None == <<>>
Some(x) == <<x>>

\* ---------------------------------------------------------------- harvest
\* flows/harvest.py. Instruments, the storage location and the schedule are
\* rows the flow only reads; the model numbers the instruments and fixes their
\* names and hooks.
Instruments == {1, 2}
S_m1 == <<"m", "1">>
S_m2 == <<"m", "2">>
InstrumentName(instrument_id) == IF instrument_id = 1 THEN S_m1 ELSE S_m2

\* the rows of hook_configs, each with its instrument_id (models/hook.py:32),
\* None for a hook without instrument scope: instrument 1 skips *.tmp, enriches
\* from the path and asks for two literal grants (the second id is no UUID)
\* and for one from the captured metadata key ext; instrument 2 redirects to
\* /alt and has an enrichment hook whose pattern does not compile; the hook
\* without scope is a filter that excludes every file
UUID_1 == "00000000-0000-0000-0000-000000000001"
HookConfigRows ==
    << [implementation |-> "builtin", builtin_name |-> "file_filter",
        config |-> HookSettings(<<>>, <<S_star_tmp>>, <<>>, <<>>, <<>>),
        trigger |-> "pre_transfer", priority |-> 0, enabled |-> TRUE,
        instrument_id |-> Some(1)],
       [implementation |-> "builtin", builtin_name |-> "file_filter",
        config |-> HookSettings(<<>>, <<S_star>>, <<>>, <<>>, <<>>),
        trigger |-> "pre_transfer", priority |-> 0, enabled |-> TRUE,
        instrument_id |-> None],
       [implementation |-> "builtin", builtin_name |-> "metadata_enrichment",
        config |-> HookSettings(<<>>, <<>>, <<>>,
                                <<[pattern |-> RE_EXT, source |-> "filename"]>>, <<>>),
        trigger |-> "post_transfer", priority |-> 0, enabled |-> TRUE,
        instrument_id |-> Some(1)],
       [implementation |-> "builtin", builtin_name |-> "file_filter",
        config |-> HookSettings(<<[pattern |-> S_star, destination |-> S_alt]>>,
                                <<>>, <<>>, <<>>, <<>>),
        trigger |-> "pre_transfer", priority |-> 0, enabled |-> TRUE,
        instrument_id |-> Some(2)],
       [implementation |-> "builtin", builtin_name |-> "access_assignment",
        config |-> HookSettings(<<>>, <<>>, <<>>, <<>>,
                                <<[grantee_type |-> "user", match_field |-> UUID_1,
                                   source |-> "literal"],
                                  [grantee_type |-> "user", match_field |-> "u1",
                                   source |-> "literal"],
                                  [grantee_type |-> "user", match_field |-> "ext",
                                   source |-> "metadata"]>>),
        trigger |-> "post_transfer", priority |-> 1, enabled |-> TRUE,
        instrument_id |-> Some(1)],
       [implementation |-> "builtin", builtin_name |-> "metadata_enrichment",
        config |-> HookSettings(<<>>, <<>>, <<>>,
                                <<[pattern |-> RE_BAD, source |-> "path"]>>, <<>>),
        trigger |-> "post_transfer", priority |-> 0, enabled |-> TRUE,
        instrument_id |-> Some(2)] >>

\* an instrument that is also given the hooks without scope
InstrumentHooksWithUnscoped(instrument_id) ==
    SelectSeq(HookConfigRows, LAMBDA h : h.instrument_id \in {Some(instrument_id), None})

\* Instrument.hooks (models/instrument.py:57): the rows whose instrument_id
\* is the instrument's id
InstrumentHooks(instrument_id) ==
    SelectSeq(HookConfigRows, LAMBDA h : h.instrument_id = Some(instrument_id))

\* DiscoveredFile(path, filename, size_bytes), as rclone.py:114-121 builds it
DiscoveredFile(path, filename, size_bytes) ==
    [path |-> path, filename |-> filename, size_bytes |-> size_bytes]
File_a == DiscoveredFile(JoinPath(S_e, S_a_tmp), S_a_tmp, 10)
File_b == DiscoveredFile(S_b_tif, S_b_tif, 20)
\* what lsjson may list: each file at most once
Listings == {<<>>, <<File_a>>, <<File_b>>, <<File_a, File_b>>, <<File_b, File_a>>}
\* adapter.discover(): the listing, or RuntimeError when rclone exits nonzero
DiscoverOutcomes ==
    {[raised |-> FALSE, files |-> l] : l \in Listings} \cup {[raised |-> TRUE, files |-> <<>>]}

\* adapter.transfer_file(): raises (mkdir, exec of the rclone binary), returns a
\* failed TransferResult (nonzero exit, destination missing) or a successful one
\* with the size and the xxhash64 digest of the destination file; the size is
\* what stat gives after the copy, which need not be the size that was listed
S_x1 == <<"x", "1">>
TransferOutcomes ==
    { [kind |-> "raised", success |-> FALSE, error |-> "PermissionError",
       bytes_transferred |-> 0, dest_checksum |-> EmptyStr],
      [kind |-> "result", success |-> FALSE, error |-> "rclone copyto failed (rc=1)",
       bytes_transferred |-> 0, dest_checksum |-> EmptyStr],
      [kind |-> "result", success |-> TRUE, error |-> "",
       bytes_transferred |-> 20, dest_checksum |-> S_x1] }

\* the rows the flow reads and never writes
PersistentIdTypes == {"ark", "doi", "handle"}
TransferAdapterTypes == {"rclone", "globus", "rsync"}
GoodConfig ==
    [instrument_exists |-> TRUE, transfer_adapter |-> "rclone", service_account |-> TRUE,
     schedule_exists |-> TRUE, default_identifier_type |-> "ark"]
Configs ==
    { GoodConfig,
      [GoodConfig EXCEPT !.instrument_exists = FALSE],
      [GoodConfig EXCEPT !.transfer_adapter = "globus"],
      [GoodConfig EXCEPT !.service_account = FALSE],
      [GoodConfig EXCEPT !.schedule_exists = FALSE],
      [GoodConfig EXCEPT !.default_identifier_type = "doi"] }
STORAGE_1 == "00000000-0000-0000-0000-0000000000a1"
StorageLocations == {STORAGE_1}

\* uuid.UUID(text): the strings of the model that are UUIDs, and their rows
UuidValues == (UUID_1 :> 1) @@ (STORAGE_1 :> 1)
UuidRaises(text) == text \notin DOMAIN UuidValues

\* HookConfig.config is free-form JSON (schemas/hook.py: dict | None), so a
\* configured match_field may be a number; JSON_NUMBER stands for such a value
JSON_NUMBER == "7 (a JSON number)"
NonStrings == {JSON_NUMBER}

\* what uuid.UUID(value) raises: ValueError for a string that is no UUID,
\* AttributeError for a value that is no string (its hex.replace fails)
UuidError(value) ==
    IF value \in NonStrings THEN "AttributeError"
    ELSE IF UuidRaises(value) THEN "ValueError"
    ELSE ""

\* factory.py:12-26: create_adapter raises for another adapter type or without
\* a service account
CreateAdapterRaises(config) ==
    config.transfer_adapter # "rclone" \/ ~config.service_account

\* ---------------------------------------------------------------- identifiers

\* settings.ark_naan, ark_shoulder and default_identifier_type (config.py:60-62)
S_99999 == <<"9", "9", "9", "9", "9">>
S_fk4 == <<"f", "k", "4">>
Settings(default_identifier_type) ==
    [ark_naan |-> S_99999, ark_shoulder |-> S_fk4,
     default_identifier_type |-> default_identifier_type]
SettingsOf(config) == Settings(config.default_identifier_type)

\* uuid.UUID.bytes: 16 bytes; uuid4() sets the version and the variant bits
UUID_BYTES == 16
Uuid4(raw) ==
    [i \in 1..UUID_BYTES |-> IF i = 7 THEN 64 + (raw[i] % 16)
                             ELSE IF i = 9 THEN 128 + (raw[i] % 64)
                             ELSE raw[i]]
Uuid4Values ==
    { Uuid4([i \in 1..UUID_BYTES |-> 0]), Uuid4([i \in 1..UUID_BYTES |-> 255]),
      Uuid4([i \in 1..UUID_BYTES |-> (37 * i) % 256]) }

\* base64.b32encode: the bits of the bytes in groups of five, most significant
\* first, the last group filled with zero bits, then "=" up to a multiple of
\* eight characters. QuintetAt reads group j out of the two bytes it lies in.
B32_UPPER == <<"A", "B", "C", "D", "E", "F", "G", "H", "I", "J", "K", "L", "M", "N", "O", "P",
               "Q", "R", "S", "T", "U", "V", "W", "X", "Y", "Z", "2", "3", "4", "5", "6", "7">>
B32_LOWER == <<"a", "b", "c", "d", "e", "f", "g", "h", "i", "j", "k", "l", "m", "n", "o", "p",
               "q", "r", "s", "t", "u", "v", "w", "x", "y", "z", "2", "3", "4", "5", "6", "7">>
ByteAt(bytes, i) == IF i > Len(bytes) THEN 0 ELSE bytes[i]
QuintetAt(bytes, j) ==
    LET first == ((5 * (j - 1)) \div 8) + 1
        offset == (5 * (j - 1)) % 8
    IN  ((256 * ByteAt(bytes, first) + ByteAt(bytes, first + 1)) \div 2^(11 - offset)) % 32
B32Chars(n) == (8 * n + 4) \div 5
B32Pad(n) == (8 - (B32Chars(n) % 8)) % 8
B32Encode(bytes) ==
    [j \in 1..B32Chars(Len(bytes)) |-> B32_UPPER[QuintetAt(bytes, j) + 1]]
        \o [j \in 1..B32Pad(Len(bytes)) |-> "="]

\* str.rstrip(c) and str.lower()
RECURSIVE RStrip(_, _)
RStrip(text, c) ==
    IF text # <<>> /\ text[Len(text)] = c THEN RStrip(SubSeq(text, 1, Len(text) - 1), c)
    ELSE text
LowerChar(c) ==
    IF \E k \in 1..26 : B32_UPPER[k] = c
    THEN B32_LOWER[CHOOSE k \in 1..26 : B32_UPPER[k] = c]
    ELSE c
Lower(text) == [k \in DOMAIN text |-> LowerChar(text[k])]

\* _uuid_to_base32 without the rstrip
UuidToBase32Padded(u) == Lower(B32Encode(u))

\* identifiers.py:8-9: _uuid_to_base32
UuidToBase32(u) == Lower(RStrip(B32Encode(u), "="))

\* x or default, for an optional string x
OrDefault(opt, default) ==
    IF opt = None \/ opt[1] = EmptyStr THEN default ELSE opt[1]

\* identifiers.py:12-16: mint_ark, u being what uuid.uuid4() gives
S_ark == <<"a", "r", "k", ":", "/">>
MintArk(settings, naan, shoulder, u) ==
    S_ark \o OrDefault(naan, settings.ark_naan) \o <<"/">>
          \o OrDefault(shoulder, settings.ark_shoulder) \o UuidToBase32(u)

\* identifiers.py:26-35: what mint_identifier raises for the scheme t
SchemeError(t) ==
    IF t = "ark" THEN ""
    ELSE IF t \in {"doi", "handle"} THEN "NotImplementedError"
    ELSE "ValueError"

\* mint_identifier minting an ARK for every scheme
MintIdentifierFallsBack(settings, id_type, naan, shoulder, u) ==
    [raised |-> FALSE, error |-> "", pid |-> MintArk(settings, naan, shoulder, u),
     pid_type |-> "ark"]

\* identifiers.py:19-35: mint_identifier(id_type, naan, shoulder)
MintIdentifier(settings, id_type, naan, shoulder, u) ==
    LET t == IF id_type = None THEN settings.default_identifier_type ELSE id_type[1]
    IN  IF SchemeError(t) = ""
        THEN [raised |-> FALSE, error |-> "", pid |-> MintArk(settings, naan, shoulder, u),
              pid_type |-> "ark"]
        ELSE [raised |-> TRUE, error |-> SchemeError(t), pid |-> EmptyStr, pid_type |-> t]

\* harvest.py:153: mint_identifier() with the configured scheme; the rows of
\* the harvest model do not keep the identifier, only its scheme
Minted(config) ==
    [raised |-> SchemeError(SettingsOf(config).default_identifier_type) # "",
     pid_type |-> SettingsOf(config).default_identifier_type]

\* ---------------------------------------------------------------- discovery
\* The tables are sequences in insertion order; a row's primary key is its
\* place in the table.

\* the paths recorded for any instrument
KnownPathsOfAll(records, instrument_id) == {records[n].source_path : n \in DOMAIN records}

\* discovery.py:23-26: the source paths recorded for the instrument
KnownPaths(records, instrument_id) ==
    {records[n].source_path :
        n \in {m \in DOMAIN records : records[m].instrument_id = instrument_id}}

\* discovery.py:28 without the test against the known paths
IsNewAlways(known_paths, f) == TRUE

\* discovery.py:28: f.path not in known_paths
IsNew(known_paths, f) == f.path \notin known_paths

\* a discovery that tests the file name against the known paths
DiscoverNewFilesByName(records, instrument_id, discovered) ==
    SelectSeq(discovered, LAMBDA f : f.filename \notin KnownPaths(records, instrument_id))

\* discover_new_files(instrument_id, discovered, session)
DiscoverNewFiles(records, instrument_id, discovered) ==
    IF discovered = <<>> THEN <<>>
    ELSE SelectSeq(discovered, LAMBDA f : IsNew(KnownPaths(records, instrument_id), f))

\* one execution of discover_files_task: raised, or the dict it returns
DiscoverFiles(config, records, instrument_id, outcome) ==
    IF ~config.instrument_exists THEN [raised |-> TRUE, at |-> "instrument"]
    ELSE IF CreateAdapterRaises(config) THEN [raised |-> TRUE, at |-> "create_adapter"]
    ELSE IF outcome.raised THEN [raised |-> TRUE, at |-> "discover"]
    ELSE [raised |-> FALSE, at |-> "return",
          instrument_name |-> InstrumentName(instrument_id),
          storage_location_id |-> IF config.schedule_exists THEN STORAGE_1 ELSE "",
          new_files |-> DiscoverNewFiles(records, instrument_id, outcome.files),
          total_discovered |-> Len(outcome.files)]

\* ---------------------------------------------------------------- transfer
\* FileRecord(...) of harvest.py:161-171
FileRecord(instrument_id, file_info, pid_type) ==
    [instrument_id |-> instrument_id, source_path |-> file_info.path,
     filename |-> file_info.filename, size_bytes |-> file_info.size_bytes,
     persistent_id_type |-> pid_type, xxhash |-> EmptyStr, metadata |-> EmptyDict]

\* FileTransfer(...) of harvest.py:191-197 and 211-218
FileTransfer(file_id, status, destination_path, error_message) ==
    [file_id |-> file_id, status |-> status, destination_path |-> destination_path,
     error_message |-> error_message, bytes_transferred |-> 0,
     dest_checksum |-> EmptyStr]

\* file_records without its unique index
NoUniqueIndex(records, row) == FALSE

\* ix_file_records_instrument_source: the flush of a second row with the same
\* instrument and source path raises IntegrityError
UniqueViolation(records, row) ==
    \E n \in DOMAIN records :
        /\ records[n].instrument_id = row.instrument_id
        /\ records[n].source_path = row.source_path

\* harvest.py:224-235 with the except clause taken away
TransferRaiseEscapes(outcome) == FALSE

\* harvest.py:226: except Exception catches whatever transfer_file raises
TransferRaiseCaught(outcome) == outcome.kind = "raised"

\* harvest.py:237 taking every returned result for a success
ResultNeverFailed(outcome) == FALSE

\* harvest.py:237: not transfer_result.success
ResultFailed(outcome) == outcome.kind = "result" /\ ~outcome.success

\* _resolve_grantee: users by email, groups and projects by name
GranteeRegistry ==
    [user |-> {<<S_e, 1>>}, group |-> {<<S_b_tif, 1>>}, project |-> {}]
ResolveGrantee(grantee_type, name) ==
    IF grantee_type \notin GranteeTypes THEN {}
    ELSE {x[2] : x \in {y \in GranteeRegistry[grantee_type] : y[1] = name}}

\* harvest.py:282-286: what building the FileAccessGrant of a literal request
\* raises; GranteeType(...) is evaluated before uuid.UUID(...)
GrantError(grant_info) ==
    IF grant_info.grantee_type \notin GranteeTypes THEN "ValueError"
    ELSE UuidError(grant_info.grantee_id)

\* harvest.py:288: except (ValueError, KeyError)
GrantCaught(error) == error \in {"ValueError", "KeyError"}

\* the request makes the loop of harvest.py:279-309 raise
GrantEscapes(grant_info) ==
    /\ grant_info.kind = "grantee_id"
    /\ GrantError(grant_info) # ""
    /\ ~GrantCaught(GrantError(grant_info))

AddGrantsRaises(access_grants) ==
    \E i \in DOMAIN access_grants : GrantEscapes(access_grants[i])

\* harvest.py:279-309: the grant rows one request adds to the session
GrantRowsFor(grants, file_id, grant_info) ==
    LET row(t, id) ==
            [id |-> Cardinality({g \in grants : g.file_id = file_id /\ g.grantee_type = t
                                                   /\ g.grantee_id = id}) + 1,
             file_id |-> file_id, grantee_type |-> t, grantee_id |-> id]
    IN  IF grant_info.kind = "grantee_id"
        THEN IF GrantError(grant_info) # ""
             THEN {}
             ELSE {row(grant_info.grantee_type, UuidValues[grant_info.grantee_id])}
        ELSE {row(grant_info.grantee_type, id) :
                 id \in ResolveGrantee(grant_info.grantee_type, grant_info.resolve_value)}

RECURSIVE AddGrants(_, _, _, _)
AddGrants(grants, file_id, access_grants, i) ==
    IF i > Len(access_grants) THEN grants
    ELSE AddGrants(grants \cup GrantRowsFor(grants, file_id, access_grants[i]),
                   file_id, access_grants, i + 1)

\* how one execution of transfer_single_file_task ends: get_db_session rolls
\* the transaction back when the body raises and commits when it returns
\* adapter_calls are the calls of adapter.transfer_file the execution made
RolledBack(at, records, transfers, grants, adapter_calls) ==
    [raised |-> TRUE, at |-> at, status |-> "raised", records |-> records,
     transfers |-> transfers, grants |-> grants, adapter_calls |-> adapter_calls,
     adapter_called |-> adapter_calls # <<>>]
Committed(status, records, transfers, grants, adapter_calls) ==
    [raised |-> FALSE, at |-> "return", status |-> status, records |-> records,
     transfers |-> transfers, grants |-> grants, adapter_calls |-> adapter_calls,
     adapter_called |-> adapter_calls # <<>>]

\* adapter.transfer_file(source_path, destination_path) of harvest.py:225
AdapterCall(transfer, file_record) ==
    <<[source_path |-> file_record.source_path,
       destination_path |-> transfer.destination_path]>>

\* harvest.py:189 never taking the skip branch
PreNeverSkips(pre_result) == FALSE

\* harvest.py:189: pre_result.action == HookAction.skip
PreSkips(pre_result) == pre_result.action = "skip"

\* harvest.py:205 never taking the redirect branch
PreNeverRedirects(pre_result) == FALSE

\* harvest.py:205: pre_result.action == HookAction.redirect
PreRedirects(pre_result) == pre_result.action = "redirect"

\* harvest.py:176 and 206: the destination below the storage location's base
\* path, or below the redirect path
DefaultPath(instrument_id, source_path) ==
    JoinPath(JoinPath(S_store, InstrumentName(instrument_id)), source_path)
RedirectedPath(redirect_path, instrument_id, source_path) ==
    JoinPath(JoinPath(redirect_path, InstrumentName(instrument_id)), source_path)

\* a row marked completed without what the adapter returned
FinishTransferWithoutResult(transfer, outcome) == [transfer EXCEPT !.status = "completed"]

\* harvest.py:249-253: the row takes the byte count and the checksum of the
\* TransferResult
FinishTransfer(transfer, outcome) ==
    [transfer EXCEPT !.status = "completed",
                     !.bytes_transferred = outcome.bytes_transferred,
                     !.dest_checksum = outcome.dest_checksum]

\* harvest.py:256-257: the destination checksum, if there is one, becomes the
\* content hash of the FileRecord
HashRecord(file_record, outcome) ==
    IF outcome.dest_checksum # EmptyStr
    THEN [file_record EXCEPT !.xxhash = outcome.dest_checksum]
    ELSE file_record

\* post-transfer hooks that get the context of the pre-transfer phase
PostContextUnchanged(hook_ctx, outcome) == hook_ctx

\* harvest.py:267-268: the context of the post-transfer hooks
PostContext(hook_ctx, outcome) ==
    [hook_ctx EXCEPT !.transfer_success = TRUE, !.checksum = outcome.dest_checksum]

\* harvest.py:248-318: the transfer succeeded; post is what run_hooks gave for
\* the post-transfer trigger
CompleteTransfer(records, transfers, grants, file_record, transfer, outcome, post) ==
    LET file_id == Len(records) + 1
        done == FinishTransfer(transfer, outcome)
        hashed == HashRecord(file_record, outcome)
        enriched == IF DOMAIN post.result.metadata_updates # {}
                    THEN [hashed EXCEPT !.metadata =
                              DictUpdate(@, post.result.metadata_updates)]
                    ELSE hashed
    IN  IF post.raised
        THEN RolledBack("post_hooks", records, transfers, grants,
                        AdapterCall(transfer, file_record))
        ELSE IF AddGrantsRaises(post.result.access_grants)
        THEN RolledBack("access_grants", records, transfers, grants,
                        AdapterCall(transfer, file_record))
        ELSE Committed("completed", Append(records, enriched), Append(transfers, done),
                       AddGrants(grants, file_id, post.result.access_grants, 1),
                       AdapterCall(transfer, file_record))

\* harvest.py:189-318: from the result of the pre-transfer hooks on; the
\* result of the post-transfer hooks is bound once (269)
AfterPreHooks(config, records, transfers, grants, file_record, hook_ctx, hook_configs, outcome, pre) ==
    LET file_id == Len(records) + 1
        destination_path ==
            IF PreRedirects(pre.result)
            THEN RedirectedPath(pre.result.redirect_path, file_record.instrument_id,
                                file_record.source_path)
            ELSE hook_ctx.destination_path
        transfer == FileTransfer(file_id, "in_progress", destination_path, "")
    IN  IF pre.raised THEN RolledBack("pre_hooks", records, transfers, grants, <<>>)
        ELSE IF PreSkips(pre.result)
        THEN Committed("skipped", Append(records, file_record),
                       Append(transfers,
                              FileTransfer(file_id, "skipped", EmptyStr, pre.result.message)),
                       grants, <<>>)
        ELSE IF CreateAdapterRaises(config)
        THEN RolledBack("create_adapter", records, transfers, grants, <<>>)
        ELSE IF outcome.kind = "raised" /\ ~TransferRaiseCaught(outcome)
        THEN RolledBack("transfer_file", records, transfers, grants,
                        AdapterCall(transfer, file_record))
        ELSE IF outcome.kind = "raised" \/ ResultFailed(outcome)
        THEN Committed("failed", Append(records, file_record),
                       Append(transfers, [transfer EXCEPT !.status = "failed",
                                                          !.error_message = outcome.error]),
                       grants, AdapterCall(transfer, file_record))
        ELSE The({CompleteTransfer(records, transfers, grants, file_record, transfer,
                                   outcome, post_result) :
                  post_result \in
                      {RunHooks("post_transfer",
                                PostContext(ContextAfter("pre_transfer", hook_ctx,
                                                         hook_configs), outcome),
                                hook_configs)}})

\* harvest.py:152-187: from the minted identifier to the pre-transfer hooks,
\* whose result is bound once (187)
InsertRecord(config, records, transfers, grants, file_record, hook_ctx, hook_configs, outcome) ==
    IF UniqueViolation(records, file_record)
    THEN RolledBack("flush", records, transfers, grants, <<>>)
    ELSE The({AfterPreHooks(config, records, transfers, grants, file_record, hook_ctx,
                            hook_configs, outcome, pre_result) :
              pre_result \in {RunHooks("pre_transfer", hook_ctx, hook_configs)}})

\* one execution of transfer_single_file_task(file_info, ...), outcome being
\* what adapter.transfer_file does if it is called
TransferSingleFile(config, records, transfers, grants, instrument_id, storage_location_id, file_info, outcome) ==
    IF UuidRaises(storage_location_id)
    THEN RolledBack("storage_uuid", records, transfers, grants, <<>>)
    ELSE IF ~config.instrument_exists
    THEN RolledBack("instrument", records, transfers, grants, <<>>)
    ELSE IF storage_location_id \notin StorageLocations
    THEN RolledBack("storage", records, transfers, grants, <<>>)
    ELSE IF Minted(config).raised
    THEN RolledBack("mint_identifier", records, transfers, grants, <<>>)
    ELSE InsertRecord(config, records, transfers, grants,
             FileRecord(instrument_id, file_info,
                        Minted(config).pid_type),
             HookContext(file_info.path, file_info.filename, instrument_id,
                         InstrumentName(instrument_id), file_info.size_bytes,
                         DefaultPath(instrument_id, file_info.path)),
             InstrumentHooks(instrument_id), outcome)

\* harvest.py:369-387: the summary of a run
CountOf(results, status) == Cardinality({n \in DOMAIN results : results[n] = status})
SummaryTakingSkippedForTransferred(total_discovered, new_files, results) ==
    [total_discovered |-> total_discovered, new_files |-> Len(new_files),
     transferred |-> CountOf(results, "completed") + CountOf(results, "skipped"),
     skipped |-> 0,
     failed |-> CountOf(results, "failed")]
Summary(total_discovered, new_files, results) ==
    [total_discovered |-> total_discovered, new_files |-> Len(new_files),
     transferred |-> CountOf(results, "completed"),
     skipped |-> CountOf(results, "skipped"),
     failed |-> CountOf(results, "failed")]

\* Prefect's @task(retries=...) of discover_files_task and transfer_single_file_task
DISCOVER_RETRIES == 2
TRANSFER_RETRIES == 1

\* a task that is run again also after its last retry raised
MayRetryOnceMore(attempt, retries) == attempt <= retries

\* a task whose execution raised is run again while it has retries left;
\* attempt counts the executions of the task that raised so far
MayRetry(attempt, retries) == attempt < retries

\* ---------------------------------------------------------------- state
VARIABLES
    hk_pc,        \* SpecHooks: "ready" before the call of run_hooks, "done" after
    hk_trigger,   \* the trigger argument
    hk_configs,   \* the hook_configs argument
    hk_out,       \* what run_hooks gave: [raised, result, trace]
    acc_admins,   \* SpecAccess: the users whose role is admin
    acc_owner,    \* FileRecord.owner_id per file, NoUser for NULL
    group_memberships,    \* rows of group_memberships: <<group_id, user_id>>
    project_memberships,  \* rows of project_memberships: [project_id, member_type, member_id]
    file_access_grants,   \* rows of file_access_grants: [id, file_id, grantee_type, grantee_id]
    acc_last,     \* the admin request served last
    cfg,          \* Spec: the configuration rows the flow reads
    file_records,     \* rows of file_records, in insertion order
    file_transfers,   \* rows of file_transfers, in insertion order
    runs,         \* per run: where the flow is and its local variables
    starts,       \* the number of runs started so far
    tasks,        \* SpecSteps: per run, the execution of transfer_single_file_task in progress
    call_pc,      \* the specifications of one function: "ready" before its call, "done" after
    call_args,    \* the arguments of the call
    call_result,  \* what the call gave
    minted,       \* SpecMint: the results of the mint operations so far, in order
    adapters,     \* SpecRclone: the RcloneAdapter instances, by the task that built them
    processes,    \* the subprocesses run so far: [by, args, env, returncode]
    coroutines    \* SpecAwait: the calls in progress on the adapters, one per coroutine

hookVars == <<hk_pc, hk_trigger, hk_configs, hk_out>>
accessVars == <<acc_admins, acc_owner, group_memberships, project_memberships, file_access_grants, acc_last>>
harvestVars == <<cfg, file_records, file_transfers, runs, starts, tasks>>
callVars == <<call_pc, call_args, call_result, minted, adapters, processes, coroutines>>
vars == <<hookVars, accessVars, harvestVars, callVars>>

NoOutput == [raised |-> FALSE,
             result |-> HookResult("proceed", EmptyDict, <<>>, EmptyStr, <<>>),
             trace |-> <<>>]

\* ---------------------------------------------------------------- SpecHooks
\* the parts of the state a specification does not use
HooksOff ==
    /\ hk_pc = "off"
    /\ hk_trigger = "pre_transfer"
    /\ hk_configs = <<>>
    /\ hk_out = NoOutput

AccessOff ==
    /\ acc_admins = {}
    /\ acc_owner = [f \in Files |-> NoUser]
    /\ group_memberships = {}
    /\ project_memberships = {}
    /\ file_access_grants = {}
    /\ acc_last = "off"

HarvestOff ==
    /\ cfg = GoodConfig
    /\ file_records = <<>>
    /\ file_transfers = <<>>
    /\ runs = <<>>
    /\ starts = 0
    /\ tasks = <<>>

RcloneOff ==
    /\ adapters = <<>>
    /\ processes = <<>>
    /\ coroutines = <<>>

CallsOff ==
    /\ call_pc = "off"
    /\ call_args = <<>>
    /\ call_result = <<>>
    /\ minted = <<>>
    /\ RcloneOff

InitHooks ==
    /\ hk_pc = "ready"
    /\ hk_trigger \in HookTriggers
    /\ hk_configs \in HookLists
    /\ hk_out = NoOutput
    /\ AccessOff
    /\ HarvestOff
    /\ CallsOff

CallRunHooks ==
    /\ hk_pc = "ready"
    /\ hk_pc' = "done"
    /\ hk_out' = RunHooks(hk_trigger, TestContext, hk_configs)
    /\ UNCHANGED <<hk_trigger, hk_configs, accessVars, harvestVars, callVars>>

NextHooks == CallRunHooks

SpecHooks == InitHooks /\ [][NextHooks]_vars

\* ---------------------------------------------------------------- run_hooks, claims
hk_done == hk_pc = "done"
Positions == 1..Len(hk_configs)
Eligible == {i \in Positions : hk_configs[i].enabled /\ hk_configs[i].trigger = hk_trigger}

\* position a runs before position b
RunsBefore(a, b) ==
    \/ hk_configs[a].priority < hk_configs[b].priority
    \/ (hk_configs[a].priority = hk_configs[b].priority /\ a < b)

\* the eligible positions in ascending priority, ties in input order
ExpectedOrder ==
    CHOOSE s \in [1..Cardinality(Eligible) -> Eligible] :
        \A m, n \in 1..Cardinality(Eligible) : m < n => RunsBefore(s[m], s[n])

TraceHooks == [n \in 1..Len(hk_out.trace) |-> hk_out.trace[n].hook]
CallOf(i) == HookCall(hk_configs[i], TestContext)
Stops(i) == ~CallOf(i).raised /\ CallOf(i).result.action \in {"skip", "redirect"}
Contributes(i) == ~CallOf(i).raised

\* the places of ExpectedOrder whose hook returns skip or redirect
StopPlaces == {n \in 1..Len(ExpectedOrder) : Stops(ExpectedOrder[n])}
FirstStop == CHOOSE n \in StopPlaces : \A m \in StopPlaces : n <= m

\* the hooks of the trace that returned and set key k
Setters(k) ==
    {n \in 1..Len(hk_out.trace) :
        /\ Contributes(TraceHooks[n])
        /\ k \in DOMAIN CallOf(TraceHooks[n]).result.metadata_updates}
LastSetter(k) == CHOOSE n \in Setters(k) : \A m \in Setters(k) : m <= n

\* metadata_updates holds the keys set by the hooks that returned, each with
\* the value of the last hook that set it
MetadataIsMerged ==
    /\ \A n \in 1..Len(hk_out.trace) :
          Contributes(TraceHooks[n]) =>
              DOMAIN CallOf(TraceHooks[n]).result.metadata_updates
                  \subseteq DOMAIN hk_out.result.metadata_updates
    /\ \A k \in DOMAIN hk_out.result.metadata_updates :
          /\ Setters(k) # {}
          /\ hk_out.result.metadata_updates[k]
                = CallOf(TraceHooks[LastSetter(k)]).result.metadata_updates[k]

\* C3: in the pre-transfer phase run_hooks returns the result of the first hook
\* in running order that returns skip or redirect and reaches no hook after it;
\* when no hook returns skip or redirect it returns proceed with the metadata
\* updates of the hooks that ran merged.
C3_PreShortCircuit ==
    (hk_done /\ hk_trigger = "pre_transfer") =>
        IF StopPlaces # {}
        THEN /\ hk_out.result = CallOf(ExpectedOrder[FirstStop]).result
             /\ TraceHooks = SubSeq(ExpectedOrder, 1, FirstStop)
        ELSE /\ hk_out.result.action = "proceed"
             /\ TraceHooks = ExpectedOrder
             /\ MetadataIsMerged

\* a skip at priority 0 listed after a redirect at priority 1: the skip is returned
C3_Witness ==
    /\ hk_done /\ hk_trigger = "pre_transfer"
    /\ Cardinality(StopPlaces) = 2
    /\ hk_out.result.action = "skip"
    /\ Len(hk_out.trace) = 1

\* C4 as stated: run_hooks reaches exactly the enabled hooks of the requested
\* phase, in ascending priority with ties in input order.
C4_AsStated == hk_done => TraceHooks = ExpectedOrder

\* C4: the hooks run_hooks reaches are enabled hooks of the requested phase in
\* ascending priority with ties in input order: all of them in the
\* post-transfer phase, and in the pre-transfer phase those up to and including
\* the first that returns skip or redirect. A disabled hook and a hook of the
\* other phase are never reached.
C4_SelectionAndOrder ==
    hk_done =>
        /\ \A n \in 1..Len(hk_out.trace) : TraceHooks[n] \in Eligible
        /\ IF hk_trigger = "pre_transfer" /\ StopPlaces # {}
           THEN TraceHooks = SubSeq(ExpectedOrder, 1, FirstStop)
           ELSE TraceHooks = ExpectedOrder

\* the hook listed second has the lower priority and runs first
C4_Witness ==
    /\ hk_done
    /\ Len(hk_configs) = 2
    /\ hk_configs[2].priority < hk_configs[1].priority
    /\ TraceHooks = <<2, 1>>

\* the grant requests of the hooks of the trace that returned, in trace order
RECURSIVE GrantsUpTo(_)
GrantsUpTo(n) ==
    IF n = 0 THEN <<>>
    ELSE GrantsUpTo(n - 1)
         \o (IF Contributes(TraceHooks[n]) THEN CallOf(TraceHooks[n]).result.access_grants
             ELSE <<>>)

\* C5: in the post-transfer phase every selected hook is reached whatever the
\* earlier ones returned, and the result is proceed with the metadata maps
\* merged (the last hook to set a key wins) and the grant requests concatenated
\* in running order.
C5_PostMerge ==
    (hk_done /\ hk_trigger = "post_transfer") =>
        /\ TraceHooks = ExpectedOrder
        /\ hk_out.result.action = "proceed"
        /\ MetadataIsMerged
        /\ hk_out.result.access_grants = GrantsUpTo(Len(hk_out.trace))

\* two post-transfer hooks set k to different values and the later one wins
C5_Witness ==
    /\ hk_done /\ hk_trigger = "post_transfer"
    /\ Len(hk_out.trace) = 2
    /\ \A n \in {1, 2} : "k" \in DOMAIN CallOf(TraceHooks[n]).result.metadata_updates
    /\ CallOf(TraceHooks[1]).result.metadata_updates["k"]
          # CallOf(TraceHooks[2]).result.metadata_updates["k"]
    /\ hk_out.result.metadata_updates["k"] = CallOf(TraceHooks[2]).result.metadata_updates["k"]

\* hook_configs without position i
RemoveAt(s, i) == SubSeq(s, 1, i - 1) \o SubSeq(s, i + 1, Len(s))
\* the trace without the entry of position i, positions renumbered
TraceWithout(trace, i) ==
    LET kept == SelectSeq(trace, LAMBDA e : e.hook # i)
    IN  [n \in 1..Len(kept) |->
            [hook |-> IF kept[n].hook > i THEN kept[n].hook - 1 ELSE kept[n].hook,
             step |-> kept[n].step]]

\* C6: run_hooks never raises, and a hook whose lookup or execution raises
\* changes nothing: the result, and the hooks reached besides it, are those of
\* the same call without that hook.
C6_RaisingHookIsAbsent ==
    hk_done =>
        /\ ~hk_out.raised
        /\ \A i \in Positions :
              CallOf(i).raised =>
                  LET without == RunHooks(hk_trigger, TestContext, RemoveAt(hk_configs, i))
                  IN  /\ without.result = hk_out.result
                      /\ without.trace = TraceWithout(hk_out.trace, i)

\* a hook raised and the hook after it ran and set the result's metadata
C6_Witness ==
    /\ hk_done
    /\ Len(hk_out.trace) = 2
    /\ hk_out.trace[1].step \in {"lookup_raised", "execute_raised"}
    /\ hk_out.trace[2].step = "returned"
    /\ DOMAIN hk_out.result.metadata_updates # {}

\* ---------------------------------------------------------------- SpecAccess
Rows == Cardinality(group_memberships) + Cardinality(project_memberships)
            + Cardinality(file_access_grants)
\* A grant row's primary key is a fresh UUID. Rows with the same file, type and
\* grantee differ in nothing else, so the model keys a row by its content and
\* its copy number, the copies of one content numbered from 1 without gaps.
Copies(f, t, id) ==
    Cardinality({g \in file_access_grants :
                    g.file_id = f /\ g.grantee_type = t /\ g.grantee_id = id})

\* no membership and no grant yet; user 1 has the role user, user 2 either role;
\* file 1 has any owner or none, file 2 none
InitAccess ==
    /\ HooksOff
    /\ HarvestOff
    /\ acc_admins \in {{}, {2}}
    /\ acc_owner \in {o \in [Files -> Users \cup {NoUser}] : o[2] = NoUser}
    /\ group_memberships = {}
    /\ project_memberships = {}
    /\ file_access_grants = {}
    /\ acc_last = "none"
    /\ CallsOff

\* POST /groups/{group_id}/members
AddGroupMember(g, u) ==
    /\ Rows < MaxRows
    /\ g \in Groups /\ u \in Users
    /\ <<g, u>> \notin group_memberships
    /\ group_memberships' = group_memberships \cup {<<g, u>>}
    /\ acc_last' = "add_group_member"
    /\ UNCHANGED <<callVars, hookVars, harvestVars, acc_admins, acc_owner, project_memberships, file_access_grants>>

\* DELETE /groups/{group_id}/members/{user_id}
RemoveGroupMember(g, u) ==
    /\ <<g, u>> \in group_memberships
    /\ group_memberships' = group_memberships \ {<<g, u>>}
    /\ acc_last' = "remove_group_member"
    /\ UNCHANGED <<callVars, hookVars, harvestVars, acc_admins, acc_owner, project_memberships, file_access_grants>>

ProjectMember(p, t, id) == [project_id |-> p, member_type |-> t, member_id |-> id]

\* POST /projects/{project_id}/members
AddProjectMember(p, t, id) ==
    /\ Rows < MaxRows
    /\ p \in Projects
    /\ ProjectMember(p, t, id) \notin project_memberships
    /\ project_memberships' = project_memberships \cup {ProjectMember(p, t, id)}
    /\ acc_last' = "add_project_member"
    /\ UNCHANGED <<callVars, hookVars, harvestVars, acc_admins, acc_owner, group_memberships, file_access_grants>>

\* DELETE /projects/{project_id}/members/{member_id}: the row is looked up by
\* project and member id alone, and scalar_one_or_none raises when a user and a
\* group of that id are both members
RemoveProjectMember(p, id) ==
    LET found == {m \in project_memberships : m.project_id = p /\ m.member_id = id}
    IN  /\ Cardinality(found) = 1
        /\ project_memberships' = project_memberships \ found
        /\ acc_last' = "remove_project_member"
        /\ UNCHANGED <<callVars, hookVars, harvestVars, acc_admins, acc_owner, group_memberships, file_access_grants>>

\* POST /files/{file_id}/access
GrantFileAccess(f, t, id) ==
    /\ Rows < MaxRows
    /\ f \in Files
    /\ file_access_grants' = file_access_grants \cup
            {[id |-> Copies(f, t, id) + 1, file_id |-> f, grantee_type |-> t, grantee_id |-> id]}
    /\ acc_last' = "grant_file_access"
    /\ UNCHANGED <<callVars, hookVars, harvestVars, acc_admins, acc_owner, group_memberships, project_memberships>>

\* DELETE /files/{file_id}/access/{grant_id}, grant_id naming row g
RevokeFileAccess(f, g) ==
    /\ f \in Files
    /\ g \in file_access_grants /\ g.file_id = f
    /\ g.id = Copies(g.file_id, g.grantee_type, g.grantee_id)
    /\ file_access_grants' = file_access_grants \ {g}
    /\ acc_last' = "revoke_file_access"
    /\ UNCHANGED <<callVars, hookVars, harvestVars, acc_admins, acc_owner, group_memberships, project_memberships>>

NextAccess ==
    \/ \E g \in Groups, u \in Users : AddGroupMember(g, u)
    \/ \E g \in Groups, u \in Users : RemoveGroupMember(g, u)
    \/ \E p \in Projects, t \in MemberTypes, id \in AnyId : AddProjectMember(p, t, id)
    \/ \E p \in Projects, id \in AnyId : RemoveProjectMember(p, id)
    \/ \E f \in Files, t \in GranteeTypes, id \in AnyId : GrantFileAccess(f, t, id)
    \/ \E f \in Files, g \in file_access_grants : RevokeFileAccess(f, g)

SpecAccess == InitAccess /\ [][NextAccess]_vars

\* ---------------------------------------------------------------- access, claims
\* what user u gets from a query over all files
VisibleTo(u) ==
    ApplyFileAccessFilter(Files, acc_admins, acc_owner, group_memberships,
                          project_memberships, file_access_grants, u)

InGroup(u, g) == <<g, u>> \in group_memberships
DirectInProject(u, p) == ProjectMember(p, "user", u) \in project_memberships
GroupInProject(g, p) == ProjectMember(p, "group", g) \in project_memberships
InProject(u, p) == DirectInProject(u, p) \/ \E g \in AnyId : InGroup(u, g) /\ GroupInProject(g, p)
HasGrant(f, t, id) ==
    \E g \in file_access_grants : g.file_id = f /\ g.grantee_type = t /\ g.grantee_id = id

MaySee(u, f) ==
    \/ acc_owner[f] = u
    \/ HasGrant(f, "user", u)
    \/ \E g \in AnyId : HasGrant(f, "group", g) /\ InGroup(u, g)
    \/ \E p \in AnyId : HasGrant(f, "project", p) /\ InProject(u, p)

\* C7: a user without the admin role sees file F exactly when F.owner is the
\* user, or F has a user grant to the user, a group grant to a group of the
\* user, or a project grant to a project the user is in directly or through a
\* group, grantee and member types matching; an admin sees every file.
C7_VisibilityRule ==
    \A u \in Users, f \in Files :
        (f \in VisibleTo(u)) <=> (u \in acc_admins \/ MaySee(u, f))

\* user 1 is in group 1, which is a member of project 1, which has a grant on
\* file 2, and group 1's id under the type user gives nothing on file 1
C7_Witness ==
    /\ InGroup(1, 1) /\ GroupInProject(1, 1) /\ HasGrant(2, "project", 1)
    /\ VisibleTo(1) = {2}
    /\ acc_owner[1] = 2 /\ 2 \notin acc_admins

\* U sees F through U in G, G in P, grant (project, P) on F and in no other way
OnlyThroughChain(u, g, p, f) ==
    /\ u \notin acc_admins /\ acc_owner[f] # u
    /\ InGroup(u, g) /\ GroupInProject(g, p) /\ HasGrant(f, "project", p)
    /\ \A x \in file_access_grants :
          (x.file_id = f /\ GrantMatches(group_memberships, project_memberships, x, u))
              => (x.grantee_type = "project" /\ x.grantee_id = p)
    /\ Cardinality({x \in file_access_grants :
                        x.file_id = f /\ x.grantee_type = "project" /\ x.grantee_id = p}) = 1
    /\ ~DirectInProject(u, p)
    /\ \A h \in AnyId : (InGroup(u, h) /\ GroupInProject(h, p)) => h = g

\* C8: when U sees F only through U in G, G in P and the grant (project, P) on
\* F, removing U from G, removing G from P or revoking the grant ends the
\* visibility, and adding the missing group membership back restores it.
C8_VisibilityFollowsMembership ==
    [][\A u \in Users, g \in Groups, p \in Projects, f \in Files :
          /\ (OnlyThroughChain(u, g, p, f)
                /\ (\/ RemoveGroupMember(g, u)
                    \/ RemoveProjectMember(p, g)
                    \/ \E x \in file_access_grants :
                          /\ RevokeFileAccess(f, x)
                          /\ x.grantee_type = "project" /\ x.grantee_id = p))
                => f \notin VisibleTo(u)'
          /\ (u \notin acc_admins /\ f \notin VisibleTo(u)
                /\ GroupInProject(g, p) /\ HasGrant(f, "project", p)
                /\ AddGroupMember(g, u))
                => f \in VisibleTo(u)'
      ]_vars

\* user 1 has just been removed from group 1 and no longer sees file 2, which
\* project 1 has a grant on and group 1 is a member of
C8_Witness ==
    /\ acc_last = "remove_group_member"
    /\ ~InGroup(1, 1) /\ GroupInProject(1, 1) /\ HasGrant(2, "project", 1)
    /\ 2 \notin VisibleTo(1)

\* ---------------------------------------------------------------- Spec
\* Harvest runs of the instruments against one database. A run is a call of
\* harvest_instrument_flow; Runs are the calls that may be in progress at once.
Runs == {1, 2}

IdleRun ==
    [pc |-> "idle", instrument_id |-> 0, new_files |-> <<>>, total_discovered |-> 0,
     storage_location_id |-> "", i |-> 0, attempt |-> 0, results |-> <<>>,
     summary |-> Summary(0, <<>>, <<>>)]

Active(r) == runs[r].pc \in {"discover", "transfer"}

Init ==
    /\ HooksOff
    /\ AccessOff
    /\ cfg \in Configs
    /\ file_records = <<>>
    /\ file_transfers = <<>>
    /\ runs = [r \in Runs |-> IdleRun]
    /\ starts = 0
    /\ tasks = <<>>
    /\ CallsOff

\* harvest_instrument_flow(instrument_id, schedule_id) is called; the call
\* takes the first place that is free
StartFlow(r, instrument_id) ==
    /\ starts < MaxStarts
    /\ ~Active(r)
    /\ \A q \in Runs : q < r => Active(q)
    /\ runs' = [runs EXCEPT ![r] = [IdleRun EXCEPT !.pc = "discover",
                                                   !.instrument_id = instrument_id]]
    /\ starts' = starts + 1
    /\ UNCHANGED <<callVars, hookVars, accessVars, cfg, file_records, file_transfers, tasks>>

\* one execution of discover_files_task in run r, and what the flow does with
\* it: retry, raise, return the empty summary or enter the loop
DiscoverFilesTask(r, outcome) ==
    /\ runs[r].pc = "discover"
    /\ LET run == runs[r]
           d == DiscoverFiles(cfg, file_records, run.instrument_id, outcome)
       IN  runs' = [runs EXCEPT ![r] =
                IF d.raised
                THEN IF MayRetry(run.attempt, DISCOVER_RETRIES)
                     THEN [run EXCEPT !.attempt = @ + 1]
                     ELSE [run EXCEPT !.pc = "raised"]
                ELSE IF d.new_files = <<>>
                THEN [run EXCEPT !.pc = "returned",
                                 !.total_discovered = d.total_discovered,
                                 !.storage_location_id = d.storage_location_id,
                                 !.summary = Summary(d.total_discovered, <<>>, <<>>)]
                ELSE [run EXCEPT !.pc = "transfer", !.new_files = d.new_files,
                                 !.total_discovered = d.total_discovered,
                                 !.storage_location_id = d.storage_location_id,
                                 !.i = 1, !.attempt = 0]]
    /\ UNCHANGED <<callVars, hookVars, accessVars, cfg, file_records, file_transfers, starts, tasks>>

\* what run r's next execution of transfer_single_file_task does
Execution(r, outcome) ==
    TransferSingleFile(cfg, file_records, file_transfers, file_access_grants,
                       runs[r].instrument_id, runs[r].storage_location_id,
                       runs[r].new_files[runs[r].i], outcome)

\* a flow that catches the exception of a task, counts the file as failed and
\* goes on with the next file
TaskRaisesCaught(run) ==
    LET results == Append(run.results, "failed")
    IN  IF run.i = Len(run.new_files)
        THEN [run EXCEPT !.pc = "returned", !.results = results, !.attempt = 0,
                         !.summary = Summary(run.total_discovered, run.new_files, results)]
        ELSE [run EXCEPT !.i = @ + 1, !.results = results, !.attempt = 0]

\* harvest.py:360: the task call is not inside a try, so the exception of a
\* task that has no retry left leaves the flow: the run raises
TaskRaises(run) == [run EXCEPT !.pc = "raised"]

\* what the flow does with an execution t of transfer_single_file_task in run
\* r: the transaction's outcome, then retry, raise, go to the next file or return
FlowAfterTransfer(r, t) ==
    LET run == runs[r]
        results == Append(run.results, t.status)
    IN  /\ file_records' = t.records
        /\ file_transfers' = t.transfers
        /\ file_access_grants' = t.grants
        /\ runs' = [runs EXCEPT ![r] =
                IF t.raised
                THEN IF MayRetry(run.attempt, TRANSFER_RETRIES)
                     THEN [run EXCEPT !.attempt = @ + 1]
                     ELSE TaskRaises(run)
                ELSE IF run.i = Len(run.new_files)
                THEN [run EXCEPT !.pc = "returned", !.results = results, !.attempt = 0,
                                 !.summary = Summary(run.total_discovered,
                                                     run.new_files, results)]
                ELSE [run EXCEPT !.i = @ + 1, !.results = results, !.attempt = 0]]

\* one execution of transfer_single_file_task for the file run r is at
TransferSingleFileTask(r, outcome) ==
    /\ runs[r].pc = "transfer"
    /\ \E t \in {Execution(r, outcome)} : FlowAfterTransfer(r, t)
    /\ UNCHANGED <<callVars, hookVars, acc_admins, acc_owner, group_memberships,
                   project_memberships, acc_last, cfg, starts, tasks>>

Next ==
    \/ \E r \in Runs, instrument_id \in Instruments : StartFlow(r, instrument_id)
    \/ \E r \in Runs, outcome \in DiscoverOutcomes : DiscoverFilesTask(r, outcome)
    \/ \E r \in Runs, outcome \in TransferOutcomes : TransferSingleFileTask(r, outcome)

Spec == Init /\ [][Next]_vars

\* ---------------------------------------------------------------- harvest, claims
\* the file run r is at, and whether an execution reaches adapter.transfer_file
FileAt(r) == runs[r].new_files[runs[r].i]
InvokesAdapter(r, outcome) == Execution(r, outcome).adapter_called
TransferOf(file_id) ==
    {n \in DOMAIN file_transfers : file_transfers[n].file_id = file_id}
RecordsOf(instrument_id, path) ==
    {n \in DOMAIN file_records : /\ file_records[n].instrument_id = instrument_id
                                 /\ file_records[n].source_path = path}

\* C1: after any sequence of harvest runs, whatever the listings, the hook
\* results and the transfer outcomes were, file_records holds at most one row
\* per instrument id and source path.
C1_OneRecordPerSource ==
    \A m, n \in DOMAIN file_records :
        (/\ file_records[m].instrument_id = file_records[n].instrument_id
         /\ file_records[m].source_path = file_records[n].source_path) => m = n

\* two runs of one instrument found the same path new; one recorded it, the
\* other raised at that file
C1_Witness ==
    \E r, q \in Runs :
        /\ r # q
        /\ runs[r].instrument_id = runs[q].instrument_id
        /\ runs[q].pc = "raised" /\ runs[q].i > 0
        /\ runs[r].results # <<>>
        /\ \E n \in DOMAIN runs[r].new_files : runs[r].new_files[n] = FileAt(q)
        /\ RecordsOf(runs[q].instrument_id, FileAt(q).path) # {}
        /\ cfg = GoodConfig

\* C2: once a FileRecord of instrument I and path p is committed, no discovery
\* for I returns p as new and no execution of the transfer task reaches the
\* adapter's transfer for p, whatever the status of the record's FileTransfer.
C2_RecordedIsNeverNewAgain ==
    [][\A r \in Runs :
          /\ \A outcome \in DiscoverOutcomes :
                DiscoverFilesTask(r, outcome) =>
                    \A n \in DOMAIN runs'[r].new_files :
                        RecordsOf(runs[r].instrument_id, runs'[r].new_files[n].path) = {}
          /\ \A outcome \in TransferOutcomes :
                (TransferSingleFileTask(r, outcome) /\ InvokesAdapter(r, outcome)) =>
                    RecordsOf(runs[r].instrument_id, FileAt(r).path) = {}]_vars

\* a run whose listing held both files returned with nothing new, a transfer of
\* that instrument having failed before
C2_Witness ==
    \E r \in Runs :
        /\ runs[r].pc = "returned"
        /\ runs[r].total_discovered = 2
        /\ runs[r].new_files = <<>>
        /\ \E n \in DOMAIN file_transfers :
              /\ file_transfers[n].status = "failed"
              /\ file_records[file_transfers[n].file_id].instrument_id
                     = runs[r].instrument_id

\* C9: a transfer that raises or fails for file X of a run gives X a failed
\* FileTransfer and never makes the run raise: the run goes on to the next
\* file, or returns its summary when X was the last, and a returned run has a
\* result for every file of its new set.
C9_FailureIsContained ==
    [][\A r \in Runs : \A outcome \in TransferOutcomes :
          (TransferSingleFileTask(r, outcome) /\ InvokesAdapter(r, outcome)) =>
              /\ runs'[r].pc # "raised"
              /\ runs'[r].attempt = 0
              /\ Len(runs'[r].results) = runs[r].i
              /\ ~outcome.success =>
                    /\ runs'[r].results[runs[r].i] = "failed"
                    /\ Len(file_transfers') = Len(file_transfers) + 1
                    /\ file_transfers'[Len(file_transfers')].status = "failed"
                    /\ file_records'[file_transfers'[Len(file_transfers')].file_id].source_path
                           = FileAt(r).path
              /\ IF runs[r].i < Len(runs[r].new_files)
                 THEN runs'[r].pc = "transfer" /\ runs'[r].i = runs[r].i + 1
                 ELSE /\ runs'[r].pc = "returned"
                      /\ runs'[r].summary.new_files = Len(runs'[r].results)
                      /\ runs'[r].summary.failed = CountOf(runs'[r].results, "failed")]_vars

\* a run returned its summary, its first file's transfer having raised and its
\* second file completed
C9_Witness ==
    \E r \in Runs :
        /\ runs[r].pc = "returned"
        /\ runs[r].results = <<"failed", "completed">>
        /\ runs[r].summary.failed = 1 /\ runs[r].summary.transferred = 1
        /\ \E n \in DOMAIN file_transfers :
              /\ file_transfers[n].status = "failed"
              /\ file_transfers[n].error_message = "PermissionError"
              /\ file_records[file_transfers[n].file_id].source_path
                     = runs[r].new_files[1].path

\* C10: when the adapter's transfer raises or returns a failed result, the
\* task commits the FileRecord as it was inserted and one FileTransfer for it
\* with status failed and the error text, adds no grant, and returns the
\* result failed without raising.
C10_FailedTransferIsRecorded ==
    [][\A r \in Runs : \A outcome \in TransferOutcomes :
          (/\ ~outcome.success
           /\ TransferSingleFileTask(r, outcome)
           /\ InvokesAdapter(r, outcome)) =>
              LET file_id == Len(file_records) + 1
              IN  /\ ~Execution(r, outcome).raised
                  /\ Execution(r, outcome).status = "failed"
                  /\ file_records' = Append(file_records,
                         FileRecord(runs[r].instrument_id, FileAt(r), "ark"))
                  /\ Len(file_transfers') = Len(file_transfers) + 1
                  /\ SubSeq(file_transfers', 1, Len(file_transfers)) = file_transfers
                  /\ file_transfers'[Len(file_transfers')].file_id = file_id
                  /\ file_transfers'[Len(file_transfers')].status = "failed"
                  /\ file_transfers'[Len(file_transfers')].error_message = outcome.error
                  /\ outcome.error # ""
                  /\ file_access_grants' = file_access_grants]_vars

\* a failed result, not an exception, left a failed FileTransfer with rclone's
\* message and its FileRecord, and the run went on
C10_Witness ==
    \E r \in Runs : \E n \in DOMAIN file_transfers :
        /\ runs[r].pc \in {"transfer", "returned"}
        /\ runs[r].results # <<>>
        /\ runs[r].results[Len(runs[r].results)] = "failed"
        /\ n = Len(file_transfers)
        /\ file_transfers[n].status = "failed"
        /\ file_transfers[n].error_message = "rclone copyto failed (rc=1)"
        /\ file_transfers[n].file_id \in DOMAIN file_records
        /\ file_records[file_transfers[n].file_id].source_path
               = runs[r].new_files[Len(runs[r].results)].path

\* what the pre-transfer hooks give for the file run r is at
PreResultAt(r) ==
    RunHooks("pre_transfer",
             HookContext(FileAt(r).path, FileAt(r).filename, runs[r].instrument_id,
                         InstrumentName(runs[r].instrument_id), FileAt(r).size_bytes,
                         DefaultPath(runs[r].instrument_id, FileAt(r).path)),
             InstrumentHooks(runs[r].instrument_id)).result
LastTransfer == file_transfers[Len(file_transfers)]
RootedUnder(path, root) ==
    /\ Len(path) > Len(root) + 1
    /\ SubSeq(path, 1, Len(root) + 1) = root \o S_slash

\* C11: when the pre-transfer hooks return skip for a file, the task commits
\* the file's FileRecord and exactly one FileTransfer for it, with status
\* skipped and the hook's message, never calls the adapter's transfer, and the
\* file counts as skipped in the run's results and summary.
C11_SkipIsRecorded ==
    [][\A r \in Runs : \A outcome \in TransferOutcomes :
          (/\ TransferSingleFileTask(r, outcome)
           /\ ~Execution(r, outcome).raised
           /\ PreResultAt(r).action = "skip") =>
              /\ Execution(r, outcome).adapter_calls = <<>>
              /\ file_records' = Append(file_records,
                     FileRecord(runs[r].instrument_id, FileAt(r), "ark"))
              /\ file_transfers' = Append(file_transfers,
                     FileTransfer(Len(file_records) + 1, "skipped", EmptyStr,
                                  PreResultAt(r).message))
              /\ PreResultAt(r).message # <<>>
              /\ file_access_grants' = file_access_grants
              /\ runs'[r].results = Append(runs[r].results, "skipped")
              /\ runs'[r].pc = "returned" =>
                    runs'[r].summary.skipped = CountOf(runs'[r].results, "skipped")]_vars

\* a returned run skipped a.tmp: its record has one transfer, skipped, with
\* the exclude pattern in its message
C11_Witness ==
    \E r \in Runs : \E k \in DOMAIN runs[r].results :
        /\ runs[r].pc = "returned"
        /\ runs[r].results[k] = "skipped"
        /\ runs[r].summary.skipped = 1
        /\ \E n \in RecordsOf(runs[r].instrument_id, runs[r].new_files[k].path) :
              /\ Cardinality(TransferOf(n)) = 1
              /\ \A t \in TransferOf(n) :
                    /\ file_transfers[t].status = "skipped"
                    /\ file_transfers[t].error_message = <<"Excluded by pattern", S_star_tmp>>

\* C12: the adapter is called with, and the FileTransfer records, a
\* destination below the redirect path when the pre-transfer hooks return
\* redirect, and below the storage location's base path when they do not.
C12_DestinationRoot ==
    [][\A r \in Runs : \A outcome \in TransferOutcomes :
          (TransferSingleFileTask(r, outcome) /\ InvokesAdapter(r, outcome)) =>
              LET calls == Execution(r, outcome).adapter_calls
                  root == IF PreResultAt(r).action = "redirect"
                          THEN PreResultAt(r).redirect_path
                          ELSE S_store
              IN  /\ Len(calls) = 1
                  /\ calls[1].source_path = FileAt(r).path
                  /\ RootedUnder(calls[1].destination_path, root)
                  /\ ~Execution(r, outcome).raised =>
                        file_transfers'[Len(file_transfers')].destination_path
                            = calls[1].destination_path]_vars

\* one completed transfer went below /alt, another below the base path
C12_Witness ==
    \E m, n \in DOMAIN file_transfers :
        /\ file_transfers[m].status = "completed"
        /\ RootedUnder(file_transfers[m].destination_path, S_alt)
        /\ file_records[file_transfers[m].file_id].instrument_id = 2
        /\ file_transfers[n].status = "completed"
        /\ RootedUnder(file_transfers[n].destination_path, S_store)
        /\ file_records[file_transfers[n].file_id].instrument_id = 1

\* The rows of file_transfers a returned run created: those of its
\* instrument's records for the paths of its new set. No other run can have
\* created them, a second record of the same source being refused.
RowsCreatedBy(r) ==
    {n \in DOMAIN file_transfers :
        LET rec == file_records[file_transfers[n].file_id]
        IN  /\ rec.instrument_id = runs[r].instrument_id
            /\ \E k \in DOMAIN runs[r].new_files :
                  runs[r].new_files[k].path = rec.source_path}
CreatedWith(r, status) ==
    Cardinality({n \in RowsCreatedBy(r) : file_transfers[n].status = status})

\* C13: the summary a run returns has discovered >= new, new = transferred +
\* skipped + failed, and transferred, skipped and failed equal the numbers of
\* FileTransfer rows the run created with status completed, skipped, failed.
C13_SummaryCounts ==
    \A r \in Runs :
        runs[r].pc = "returned" =>
            LET s == runs[r].summary
            IN  /\ s.total_discovered >= s.new_files
                /\ s.new_files = Len(runs[r].new_files)
                /\ s.new_files = s.transferred + s.skipped + s.failed
                /\ s.transferred = CreatedWith(r, "completed")
                /\ s.skipped = CreatedWith(r, "skipped")
                /\ s.failed = CreatedWith(r, "failed")

\* a run returned the summary of one skipped and one failed file
C13_Witness ==
    \E r \in Runs :
        /\ runs[r].pc = "returned"
        /\ runs[r].summary = [total_discovered |-> 2, new_files |-> 2, transferred |-> 0,
                              skipped |-> 1, failed |-> 1]
        /\ CreatedWith(r, "failed") = 1

\* C14 as stated: within one run discovery is executed at most once and the
\* processing of each new file is executed at most once, also when it raises;
\* so every execution of a task is the first one of that task for its file.
C14_AsStated ==
    [][\A r \in Runs :
          /\ \A outcome \in DiscoverOutcomes :
                DiscoverFilesTask(r, outcome) => runs[r].attempt = 0
          /\ \A outcome \in TransferOutcomes :
                TransferSingleFileTask(r, outcome) => runs[r].attempt = 0]_vars

\* C14: within one run discovery is executed at most 1 + DISCOVER_RETRIES
\* times and the processing of each new file at most 1 + TRANSFER_RETRIES
\* times. An execution is repeated only if it raised, and then it has left the
\* tables as they were; an execution that returned is never repeated, and the
\* run raises when the last execution allowed raised.
C14_RetriesAreBounded ==
    [][\A r \in Runs :
          /\ \A outcome \in DiscoverOutcomes :
                DiscoverFilesTask(r, outcome) =>
                    LET d == DiscoverFiles(cfg, file_records, runs[r].instrument_id, outcome)
                    IN  /\ runs[r].attempt <= DISCOVER_RETRIES
                        /\ runs'[r].pc = "discover" =>
                               d.raised /\ runs'[r].attempt = runs[r].attempt + 1
                        /\ (d.raised /\ runs[r].attempt = DISCOVER_RETRIES) =>
                               runs'[r].pc = "raised"
                        /\ ~d.raised => runs'[r].pc \in {"transfer", "returned"}
          /\ \A outcome \in TransferOutcomes :
                TransferSingleFileTask(r, outcome) =>
                    LET t == Execution(r, outcome)
                        again == runs'[r].pc = "transfer" /\ runs'[r].i = runs[r].i
                    IN  /\ runs[r].attempt <= TRANSFER_RETRIES
                        /\ again => /\ t.raised
                                     /\ runs'[r].attempt = runs[r].attempt + 1
                                     /\ file_records' = file_records
                                     /\ file_transfers' = file_transfers
                                     /\ file_access_grants' = file_access_grants
                        /\ (t.raised /\ runs[r].attempt = TRANSFER_RETRIES) =>
                               runs'[r].pc = "raised"
                        /\ ~t.raised => ~again]_vars

\* a run is about to execute the processing of a file a second time, and
\* another run raised after discovery had raised three times
C14_Witness ==
    \E r \in Runs :
        /\ runs[r].pc = "transfer" /\ runs[r].attempt = TRANSFER_RETRIES
        /\ \E q \in Runs : /\ runs[q].pc = "raised" /\ runs[q].i = 0
                            /\ runs[q].attempt = DISCOVER_RETRIES

\* C15 as stated: under a configuration error (instrument or storage location
\* not found, missing service account, unsupported adapter type, unimplemented
\* identifier scheme) no run returns a summary, no FileRecord, FileTransfer or
\* grant is committed and no execution reaches the adapter's transfer.
C15_ConfigErrorAbortsRun ==
    [][cfg # GoodConfig =>
          /\ \A r \in Runs : runs'[r].pc # "returned"
          /\ file_records' = <<>> /\ file_transfers' = <<>> /\ file_access_grants' = {}
          /\ \A r \in Runs : \A outcome \in TransferOutcomes :
                TransferSingleFileTask(r, outcome) => ~InvokesAdapter(r, outcome)]_vars

\* the part of C15 that does not depend on the listing: under a configuration
\* error nothing is committed and the adapter's transfer is never reached, and
\* a run that found a new file raises
C15_NothingIsTouched ==
    [][cfg # GoodConfig =>
          /\ \A r \in Runs : runs'[r].pc = "returned" => runs'[r].new_files = <<>>
          /\ file_records' = <<>> /\ file_transfers' = <<>> /\ file_access_grants' = {}
          /\ \A r \in Runs : \A outcome \in TransferOutcomes :
                TransferSingleFileTask(r, outcome) => ~InvokesAdapter(r, outcome)]_vars

\* the identifier scheme is unimplemented, one run returned the summary of an
\* empty listing and another raised at its first file
C15_Witness ==
    /\ cfg.default_identifier_type = "doi"
    /\ \E r, q \in Runs :
          /\ runs[r].pc = "returned" /\ runs[r].summary = Summary(0, <<>>, <<>>)
          /\ runs[q].pc = "raised" /\ runs[q].i = 1

\* ---------------------------------------------------------------- SpecGrants
\* The grant requests of a file whose transfer has completed (harvest.py:277-318),
\* for every list of requests a post-transfer hook can return.
MaxRequests == 2
GrantRequests ==
    { LiteralGrant("user", UUID_1), LiteralGrant("user", "u1"),
      LiteralGrant("user", JSON_NUMBER), LiteralGrant("team", UUID_1),
      DeferredGrant("user", "owner", S_e), DeferredGrant("group", "lab", S_b_tif),
      DeferredGrant("project", "project", S_e), DeferredGrant("team", "owner", S_e) }
RequestLists ==
    UNION {[1..n -> GrantRequests] : n \in 0..MaxRequests}

InitGrants ==
    /\ HooksOff
    /\ AccessOff
    /\ HarvestOff
    /\ call_pc = "ready"
    /\ call_args \in RequestLists
    /\ call_result = <<>>
    /\ minted = <<>>
    /\ RcloneOff

\* the transfer of b.tif of instrument 1 succeeded and the post-transfer hooks
\* returned call_args as their access_grants
ProcessGrants ==
    /\ call_pc = "ready"
    /\ call_pc' = "done"
    /\ call_result' =
          CompleteTransfer(<<>>, <<>>, {}, FileRecord(1, File_b, "ark"),
              FileTransfer(1, "in_progress", DefaultPath(1, File_b.path), ""),
              [kind |-> "result", success |-> TRUE, error |-> "",
               bytes_transferred |-> 20, dest_checksum |-> S_x1],
              [raised |-> FALSE,
               result |-> HookResult("proceed", EmptyDict, call_args, EmptyStr, <<>>),
               trace |-> <<>>])
    /\ UNCHANGED <<hookVars, accessVars, harvestVars, call_args, minted, adapters, processes, coroutines>>

NextGrants == ProcessGrants
SpecGrants == InitGrants /\ [][NextGrants]_vars

\* the requests of a list that the claim says create a grant
WellFormed(grant_info) ==
    /\ grant_info.kind = "grantee_id"
    /\ grant_info.grantee_type \in GranteeTypes
    /\ grant_info.grantee_id \in DOMAIN UuidValues
Resolves(grant_info) ==
    /\ grant_info.kind = "resolve_value"
    /\ grant_info.grantee_type \in GranteeTypes
    /\ \E x \in GranteeRegistry[grant_info.grantee_type] : x[1] = grant_info.resolve_value
Creating(access_grants) ==
    {i \in DOMAIN access_grants : WellFormed(access_grants[i]) \/ Resolves(access_grants[i])}
GranteeOf(grant_info) ==
    IF grant_info.kind = "grantee_id"
    THEN <<grant_info.grantee_type, UuidValues[grant_info.grantee_id]>>
    ELSE <<grant_info.grantee_type,
           CHOOSE id \in Users \cup Groups \cup Projects :
               <<grant_info.resolve_value, id>> \in GranteeRegistry[grant_info.grantee_type]>>
GrantsAsClaimed ==
    /\ Cardinality(call_result.grants) = Cardinality(Creating(call_args))
    /\ {<<g.grantee_type, g.grantee_id>> : g \in call_result.grants}
           = {GranteeOf(call_args[i]) : i \in Creating(call_args)}
    /\ \A g \in call_result.grants : g.file_id = 1

\* C16 as stated: processing the grant requests never raises and leaves the
\* file completed; a literal request creates a grant of this file iff its id
\* is well formed, a deferred one iff its name resolves in the registry of its
\* grantee type, and every other request is dropped.
C16_GrantsNeverRaise ==
    call_pc = "done" =>
        /\ ~call_result.raised
        /\ call_result.status = "completed"
        /\ GrantsAsClaimed

\* the same for lists whose literal ids are all strings
C16_StringIdsNeverRaise ==
    (call_pc = "done" /\ \A i \in DOMAIN call_args : call_args[i].grantee_id \notin NonStrings) =>
        /\ ~call_result.raised
        /\ call_result.status = "completed"
        /\ GrantsAsClaimed

\* a literal request whose id is a number made the task raise after the
\* transfer: nothing is committed
C16_Witness ==
    /\ call_pc = "done"
    /\ call_args = <<DeferredGrant("user", "owner", S_e), LiteralGrant("user", JSON_NUMBER)>>
    /\ call_result.raised /\ call_result.at = "access_grants"
    /\ call_result.records = <<>> /\ call_result.adapter_called

\* ---------------------------------------------------------------- SpecMint
\* A sequence of calls of mint_identifier under one configuration; call_args
\* holds the settings, minted the calls made so far with what they gave.
MaxMints == 2
S_12345 == <<"1", "2", "3", "4", "5">>
S_xyz == <<"x", "y", "z">>
IdTypeArgs == {None} \cup {Some(t) : t \in PersistentIdTypes}
NaanArgs == {None, Some(EmptyStr), Some(S_12345)}
ShoulderArgs == {None, Some(S_xyz)}

\* the UUIDs uuid4() has given so far
UsedUuids == {minted[n].uuid[1] : n \in {m \in DOMAIN minted : minted[m].uuid # None}}

InitMint ==
    /\ HooksOff
    /\ AccessOff
    /\ HarvestOff
    /\ call_pc = "ready"
    /\ call_args \in {Settings("ark"), Settings("doi")}
    /\ call_result = <<>>
    /\ minted = <<>>
    /\ RcloneOff

\* one call of mint_identifier(id_type, naan, shoulder); uuid4() gives a UUID
\* it has not given before, and is called only when an ARK is minted
MintIdentifierCall(id_type, naan, shoulder, u) ==
    /\ call_pc = "ready"
    /\ Len(minted) < MaxMints
    /\ u \notin UsedUuids
    /\ LET out == MintIdentifier(call_args, id_type, naan, shoulder, u)
       IN  /\ call_result' = out
           /\ minted' = Append(minted,
                  [id_type |-> id_type, naan |-> naan, shoulder |-> shoulder,
                   uuid |-> IF out.pid = EmptyStr THEN None ELSE Some(u), out |-> out])
    /\ UNCHANGED <<hookVars, accessVars, harvestVars, call_pc, call_args, adapters, processes, coroutines>>

NextMint ==
    \E id_type \in IdTypeArgs, naan \in NaanArgs, shoulder \in ShoulderArgs, u \in Uuid4Values :
        MintIdentifierCall(id_type, naan, shoulder, u)
SpecMint == InitMint /\ [][NextMint]_vars

\* the scheme a call asks for: its id_type, or the configured default
SchemeOf(call) ==
    IF call.id_type = None THEN call_args.default_identifier_type ELSE call.id_type[1]

\* C17: a call of mint_identifier for the DOI or the Handle scheme raises
\* NotImplementedError and gives no identifier; it mints no ARK instead.
C17_DoiAndHandleRaise ==
    \A n \in DOMAIN minted :
        SchemeOf(minted[n]) \in {"doi", "handle"} =>
            /\ minted[n].out.raised
            /\ minted[n].out.error = "NotImplementedError"
            /\ minted[n].out.pid = EmptyStr
            /\ minted[n].uuid = None

\* a Handle asked for by the call, then a DOI taken from the configured default
C17_Witness ==
    /\ Len(minted) = 2
    /\ call_args.default_identifier_type = "doi"
    /\ minted[1].id_type = Some("handle") /\ minted[1].out.raised
    /\ minted[2].id_type = None /\ minted[2].naan = Some(S_12345) /\ minted[2].out.raised

\* reading a lowercase base32 text back into n bytes
B32_VALUE == [c \in {B32_LOWER[k] : k \in 1..32} |-> (CHOOSE k \in 1..32 : B32_LOWER[k] = c) - 1]
CharValue(text, i) == IF i > Len(text) THEN 0 ELSE B32_VALUE[text[i]]
DecodedByte(text, i) ==
    LET first == ((8 * (i - 1)) \div 5) + 1
        offset == (8 * (i - 1)) % 5
    IN  ((1024 * CharValue(text, first) + 32 * CharValue(text, first + 1)
             + CharValue(text, first + 2)) \div 2^(7 - offset)) % 256
B32Decode(text, n) == [i \in 1..n |-> DecodedByte(text, i)]

\* the NAAN and the shoulder a call must use: its override when one is given
\* (a non-empty string), the configured value otherwise
NaanOf(call) ==
    IF call.naan \in {None, Some(EmptyStr)} THEN call_args.ark_naan ELSE call.naan[1]
ShoulderOf(call) ==
    IF call.shoulder \in {None, Some(EmptyStr)} THEN call_args.ark_shoulder
    ELSE call.shoulder[1]
ArkHead(call) == S_ark \o NaanOf(call) \o <<"/">> \o ShoulderOf(call)
ArkSuffix(call) == SubSeq(call.out.pid, Len(ArkHead(call)) + 1, Len(call.out.pid))
MintedArks == {n \in DOMAIN minted : ~minted[n].out.raised}

\* C18: the identifiers minted so far are pairwise distinct, and each is
\* ark:/<NAAN>/<shoulder><suffix> with the NAAN and the shoulder of the call's
\* override when one is given and of the configuration otherwise, the suffix
\* being the lowercase base32 text, without padding, of the UUID drawn for
\* that call.
C18_ArksAreDistinct ==
    /\ \A m, n \in MintedArks : minted[m].out.pid = minted[n].out.pid => m = n
    /\ \A n \in MintedArks :
          /\ minted[n].out.pid_type = "ark"
          /\ Len(minted[n].out.pid) = Len(ArkHead(minted[n])) + B32Chars(UUID_BYTES)
          /\ SubSeq(minted[n].out.pid, 1, Len(ArkHead(minted[n]))) = ArkHead(minted[n])
          /\ \A k \in DOMAIN ArkSuffix(minted[n]) :
                \E j \in 1..32 : B32_LOWER[j] = ArkSuffix(minted[n])[k]
          /\ B32Decode(ArkSuffix(minted[n]), UUID_BYTES) = minted[n].uuid[1]

\* two ARKs, one with the configured NAAN and shoulder and one with both
\* overridden
C18_Witness ==
    /\ Len(minted) = 2
    /\ MintedArks = {1, 2}
    /\ minted[1].naan = Some(EmptyStr) /\ minted[1].shoulder = None
    /\ minted[2].naan = Some(S_12345) /\ minted[2].shoulder = Some(S_xyz)
    /\ minted[2].out.pid # minted[1].out.pid

\* ---------------------------------------------------------------- SpecFilter
\* One call of FileFilterHook.execute for every filter configuration and file
\* of the sets below; call_args holds the hook's config and the context.
MaxPatterns == 2
S_e_star == <<"e", "/", "*">>
\* "*.tmp" matches a.tmp and e/a.tmp, "e/*" only the path e/a.tmp, "a.tmp"
\* only the filename, "*.tif" b.tif
ExcludePatterns == {S_star_tmp, S_e_star, S_a_tmp}
IncludePatterns == {S_star_tif, S_e_star}
RedirectRuleLists ==
    { <<>>,
      <<[pattern |-> S_star_tmp, destination |-> S_alt]>>,
      <<[pattern |-> S_e_star, destination |-> EmptyStr],
        [pattern |-> S_a_tmp, destination |-> S_store]>>,
      <<[pattern |-> EmptyStr, destination |-> S_alt],
        [pattern |-> S_star, destination |-> S_store],
        [pattern |-> S_star_tif, destination |-> S_alt]>> }
ListsOf(patterns) == UNION {[1..n -> patterns] : n \in 0..MaxPatterns}
\* the configs, without and with the min_size_bytes key of dev/seed.py:273
MinSizes == {1, 20}
FilterConfigs ==
    LET plain == {HookSettings(rr, ex, inc, <<>>, <<>>) :
                     rr \in RedirectRuleLists, ex \in ListsOf(ExcludePatterns),
                     inc \in ListsOf(IncludePatterns)}
    IN  plain \cup {c @@ [min_size_bytes |-> n] : c \in plain, n \in MinSizes}
FilterContexts ==
    {HookContext(f.path, f.filename, "i1", S_m1, size, DefaultPath(1, f.path)) :
        f \in {File_a, File_b}, size \in {0, 19, 20}}

InitFilter ==
    /\ HooksOff
    /\ AccessOff
    /\ HarvestOff
    /\ call_pc = "ready"
    /\ call_args \in {[config |-> c, context |-> x] : c \in FilterConfigs, x \in FilterContexts}
    /\ call_result = <<>>
    /\ minted = <<>>
    /\ RcloneOff

\* FileFilterHook(config).execute(context)
FileFilterCall ==
    /\ call_pc = "ready"
    /\ call_pc' = "done"
    /\ call_result' = FileFilterExecute(call_args.config, call_args.context)
    /\ UNCHANGED <<hookVars, accessVars, harvestVars, call_args, minted, adapters, processes, coroutines>>

NextFilter == FileFilterCall
SpecFilter == InitFilter /\ [][NextFilter]_vars

\* the pattern matches the file of the call by its filename or by its path
MatchesFile(pattern) ==
    \/ FnMatch(call_args.context.filename, pattern)
    \/ FnMatch(call_args.context.source_path, pattern)
\* the redirect rules of the call that have a pattern and a destination and
\* match, the exclude patterns that match, the include patterns that match
RedirectingRules ==
    {i \in DOMAIN call_args.config.redirect_rules :
        /\ call_args.config.redirect_rules[i].pattern # EmptyStr
        /\ call_args.config.redirect_rules[i].destination # EmptyStr
        /\ MatchesFile(call_args.config.redirect_rules[i].pattern)}
Excluding ==
    {i \in DOMAIN call_args.config.exclude_patterns :
        MatchesFile(call_args.config.exclude_patterns[i])}
Including ==
    {i \in DOMAIN call_args.config.include_patterns :
        MatchesFile(call_args.config.include_patterns[i])}
Least(set) == CHOOSE i \in set : \A j \in set : i <= j

\* C19: the first redirect rule that matches the filename or the path gives
\* redirect to its destination; otherwise the first exclude pattern that
\* matches gives skip; otherwise a non-empty include list gives proceed if one
\* of its patterns matches and skip if none does; otherwise proceed. A rule
\* without a pattern or without a destination is no rule.
C19_FilterOrder ==
    call_pc = "done" =>
        IF RedirectingRules # {}
        THEN /\ call_result.action = "redirect"
             /\ call_result.redirect_path
                    = call_args.config.redirect_rules[Least(RedirectingRules)].destination
        ELSE IF Excluding # {}
        THEN /\ call_result.action = "skip"
             /\ call_result.message
                    = <<"Excluded by pattern", call_args.config.exclude_patterns[Least(Excluding)]>>
        ELSE IF call_args.config.include_patterns # <<>>
        THEN call_result.action = IF Including # {} THEN "proceed" ELSE "skip"
        ELSE call_result.action = "proceed"

\* e/a.tmp matches the second redirect rule only by its filename (the first
\* has no destination) and an exclude pattern only by its path: redirected
C19_Witness ==
    /\ call_pc = "done"
    /\ call_args.context.filename = S_a_tmp
    /\ Len(call_args.config.redirect_rules) = 2
    /\ call_args.config.exclude_patterns = <<S_e_star>>
    /\ RedirectingRules = {2} /\ Excluding = {1}
    /\ call_result.action = "redirect" /\ call_result.redirect_path = S_store

\* the min_size_bytes of the call's config, 0 without the setting
HasMinSize == "min_size_bytes" \in DOMAIN call_args.config
MinSizeBytes == IF HasMinSize THEN call_args.config.min_size_bytes ELSE 0
TooSmall == call_args.context.size_bytes < MinSizeBytes

\* C20: with a min_size_bytes setting a file below it is skipped, with the
\* size as the reason also when an exclude pattern matches it; a file of
\* exactly min_size_bytes, and a zero-byte file without the setting, proceeds
\* unless a pattern decides otherwise.
C20_MinSizeSkips ==
    call_pc = "done" =>
        /\ (TooSmall /\ RedirectingRules = {}) =>
               /\ call_result.action = "skip"
               /\ call_result.message # <<>>
               /\ call_result.message[1] \notin {"Excluded by pattern",
                                                  "Not matched by any include pattern"}
        /\ (~TooSmall /\ RedirectingRules = {} /\ Excluding = {}
               /\ call_args.config.include_patterns = <<>>) =>
               call_result.action = "proceed"

\* a file of 19 bytes under min_size_bytes 20 and no pattern proceeded
C20_Witness ==
    /\ call_pc = "done"
    /\ HasMinSize /\ MinSizeBytes = 20 /\ call_args.context.size_bytes = 19
    /\ call_args.config.redirect_rules = <<>>
    /\ call_args.config.exclude_patterns = <<>>
    /\ call_args.config.include_patterns = <<>>
    /\ call_result.action = "proceed"

\* ---------------------------------------------------------------- SpecSteps
\* transfer_single_file_task step by step: each run has its own database
\* session, whose rows are flushed one by one and become visible to the other
\* sessions at the commit of get_db_session. Discovery and the flow are those
\* of Spec.
IdleTask ==
    [pc |-> "idle", at |-> "", trace |-> <<>>, pid_type |-> "", file_record |-> None,
     transfer |-> None, destination_path |-> EmptyStr, requests |-> <<>>,
     status |-> "", outcome |-> None, hook_ctx |-> None, hooks_run |-> <<>>,
     adapter_calls |-> <<>>]

\* the hook configs run_hooks called, in the order of the calls
Executed(hook_configs, trace) == [k \in DOMAIN trace |-> hook_configs[trace[k].hook]]

\* harvest.py:176-184: the context the hooks of both triggers get
TaskContext(instrument_id, file_info) ==
    HookContext(file_info.path, file_info.filename, instrument_id,
                InstrumentName(instrument_id), file_info.size_bytes,
                DefaultPath(instrument_id, file_info.path))

\* the rows another session has flushed and not yet committed or rolled back
OpenRecords(r) ==
    {tasks[q].file_record[1] : q \in {x \in Runs : x # r /\ tasks[x].file_record # None}}

\* a flush that does not wait for the open transactions of other sessions
NeverConflictsWithOpen(open, row) == FALSE

\* the unique index also sees the uncommitted rows of other sessions: an
\* insert of the same (instrument_id, source_path) cannot complete while the
\* transaction holding the other row is open
ConflictsWithOpen(open, row) ==
    \E o \in open : o.instrument_id = row.instrument_id /\ o.source_path = row.source_path

\* a failed row that is put back to pending
FailTransferBackToPending(transfer, error) ==
    [transfer EXCEPT !.status = "pending", !.error_message = error]

\* harvest.py:228-229 and 239-240
FailTransfer(transfer, error) ==
    [transfer EXCEPT !.status = "failed", !.error_message = error]

\* the execution raises at the step named: the exception leaves the session block
Raise(task, at) == [task EXCEPT !.pc = "raised", !.at = at]

\* the execution returns inside the session block with the status named
Return(task, status) == [task EXCEPT !.pc = "returning", !.status = status]

Step(task, name) == [task EXCEPT !.trace = Append(@, name)]

\* a task that runs the pre-transfer hooks first and mints and inserts after them
StepAfterHooksFirst(step) ==
    CASE step = "load" -> "pre_hooks"
      [] step = "pre_hooks" -> "mint"
      [] step = "mint" -> "insert"
      [] step = "insert" -> "add_transfer"
      [] step = "add_transfer" -> "transfer_file"
      [] step = "transfer_file" -> "post_hooks"
      [] step = "post_hooks" -> "grants"

\* harvest.py:132-310: the statement that follows a step which neither raised
\* nor returned
StepAfter(step) ==
    CASE step = "load" -> "mint"
      [] step = "mint" -> "insert"
      [] step = "insert" -> "pre_hooks"
      [] step = "pre_hooks" -> "add_transfer"
      [] step = "add_transfer" -> "transfer_file"
      [] step = "transfer_file" -> "post_hooks"
      [] step = "post_hooks" -> "grants"

InitSteps ==
    /\ HooksOff
    /\ AccessOff
    /\ cfg \in {GoodConfig, [GoodConfig EXCEPT !.schedule_exists = FALSE],
                [GoodConfig EXCEPT !.default_identifier_type = "doi"]}
    /\ file_records = <<>>
    /\ file_transfers = <<>>
    /\ runs = [r \in Runs |-> IdleRun]
    /\ starts = 0
    /\ tasks = [r \in Runs |-> IdleTask]
    /\ CallsOff

TaskUnchanged == UNCHANGED <<callVars, hookVars, accessVars, cfg, file_records, file_transfers, runs, starts>>

\* harvest.py:132-150: the task is called; it parses the storage location id,
\* opens its session and loads the instrument and the storage location
LoadRows(r) ==
    /\ runs[r].pc = "transfer"
    /\ tasks[r].pc = "idle"
    /\ LET task == Step([IdleTask EXCEPT !.adapter_calls = tasks[r].adapter_calls], "load")
       IN  tasks' = [tasks EXCEPT ![r] =
                IF UuidRaises(runs[r].storage_location_id) THEN Raise(task, "storage_uuid")
                ELSE IF ~cfg.instrument_exists THEN Raise(task, "instrument")
                ELSE IF runs[r].storage_location_id \notin StorageLocations
                THEN Raise(task, "storage")
                ELSE [task EXCEPT !.pc = StepAfter("load")]]
    /\ TaskUnchanged

\* harvest.py:152-159: mint_identifier
MintStep(r) ==
    /\ tasks[r].pc = "mint"
    /\ LET task == Step(tasks[r], "mint_identifier")
       IN  tasks' = [tasks EXCEPT ![r] =
                IF Minted(cfg).raised THEN Raise(task, "mint_identifier")
                ELSE [task EXCEPT !.pc = StepAfter("mint"), !.pid_type = Minted(cfg).pid_type]]
    /\ TaskUnchanged

\* harvest.py:161-173: session.add(file_record) and the flush. The insert
\* raises IntegrityError against a committed row of the same key; against an
\* uncommitted row of another session it waits for that transaction, or gives
\* up (lock_timeout) when the database's lock wait runs out
InsertFileRecord(r, lock_timeout) ==
    /\ tasks[r].pc = "insert"
    /\ LET task == Step(tasks[r], "insert_file_record")
           row == FileRecord(runs[r].instrument_id, FileAt(r), task.pid_type)
       IN  /\ ConflictsWithOpen(OpenRecords(r), row) => lock_timeout
           /\ tasks' = [tasks EXCEPT ![r] =
                IF ConflictsWithOpen(OpenRecords(r), row) THEN Raise(task, "flush_locked")
                ELSE IF UniqueViolation(file_records, row) THEN Raise(task, "flush")
                ELSE [task EXCEPT !.pc = StepAfter("insert"), !.file_record = Some(row)]]
    /\ TaskUnchanged

\* harvest.py:175-207: the pre-transfer hooks; a skip adds the skipped
\* FileTransfer and returns, a redirect changes the destination
PreTransferHooks(r) ==
    /\ tasks[r].pc = "pre_hooks"
    /\ LET hook_ctx == TaskContext(runs[r].instrument_id, FileAt(r))
           hook_configs == InstrumentHooks(runs[r].instrument_id)
           pre == RunHooks("pre_transfer", hook_ctx, hook_configs)
           task == [Step(tasks[r], "pre_hooks") EXCEPT
                        !.hook_ctx = Some(ContextAfter("pre_transfer", hook_ctx,
                                                       hook_configs)),
                        !.hooks_run = Executed(hook_configs, pre.trace)]
       IN  tasks' = [tasks EXCEPT ![r] =
                IF pre.raised THEN Raise(task, "pre_hooks")
                ELSE IF PreSkips(pre.result)
                THEN Return([task EXCEPT !.transfer =
                                Some(FileTransfer(0, "skipped", EmptyStr, pre.result.message))],
                            "skipped")
                ELSE [task EXCEPT !.pc = StepAfter("pre_hooks"),
                                  !.destination_path =
                                      IF PreRedirects(pre.result)
                                      THEN RedirectedPath(pre.result.redirect_path,
                                                          runs[r].instrument_id,
                                                          FileAt(r).path)
                                      ELSE hook_ctx.destination_path]]
    /\ TaskUnchanged

\* harvest.py:209-223: the in_progress FileTransfer is added and flushed, and
\* the adapter is built; the flush raises when the database fails (db_error)
AddTransfer(r, db_error) ==
    /\ tasks[r].pc = "add_transfer"
    /\ LET task == [Step(tasks[r], "add_transfer") EXCEPT !.transfer =
                        Some(FileTransfer(0, "in_progress", tasks[r].destination_path, ""))]
       IN  tasks' = [tasks EXCEPT ![r] =
                IF db_error THEN Raise(task, "flush_transfer")
                ELSE IF CreateAdapterRaises(cfg) THEN Raise(task, "create_adapter")
                ELSE [task EXCEPT !.pc = StepAfter("add_transfer")]]
    /\ TaskUnchanged

\* harvest.py:224-263: adapter.transfer_file and what the task makes of its
\* outcome: failed and return, or completed with the checksum
TransferFile(r, outcome) ==
    /\ tasks[r].pc = "transfer_file"
    /\ LET transfer == tasks[r].transfer[1]
           file_record == tasks[r].file_record[1]
           task == [Step(tasks[r], "transfer_file") EXCEPT
                        !.outcome = Some(outcome),
                        !.adapter_calls = @ \o AdapterCall(transfer, file_record)]
       IN  tasks' = [tasks EXCEPT ![r] =
                IF outcome.kind = "raised" /\ ~TransferRaiseCaught(outcome)
                THEN Raise(task, "transfer_file")
                ELSE IF outcome.kind = "raised" \/ ResultFailed(outcome)
                THEN Return([task EXCEPT !.transfer =
                                Some(FailTransfer(transfer, outcome.error))], "failed")
                ELSE [task EXCEPT !.pc = StepAfter("transfer_file"),
                         !.transfer = Some(FinishTransfer(transfer, outcome)),
                         !.file_record = Some(HashRecord(file_record, outcome))]]
    /\ TaskUnchanged

\* harvest.py:265-275: the post-transfer hooks, which get the context of the
\* pre-transfer phase with the outcome set on it; their metadata updates are
\* merged into the FileRecord
PostTransferHooks(r) ==
    /\ tasks[r].pc = "post_hooks"
    /\ LET hook_ctx == PostContext(tasks[r].hook_ctx[1], tasks[r].outcome[1])
           hook_configs == InstrumentHooks(runs[r].instrument_id)
           post == RunHooks("post_transfer", hook_ctx, hook_configs)
           task == [Step(tasks[r], "post_hooks") EXCEPT
                        !.hook_ctx = Some(ContextAfter("post_transfer", hook_ctx,
                                                       hook_configs)),
                        !.hooks_run = @ \o Executed(hook_configs, post.trace)]
           file_record == task.file_record[1]
       IN  tasks' = [tasks EXCEPT ![r] =
                IF post.raised THEN Raise(task, "post_hooks")
                ELSE [task EXCEPT !.pc = StepAfter("post_hooks"),
                         !.requests = post.result.access_grants,
                         !.file_record =
                             Some(IF DOMAIN post.result.metadata_updates # {}
                                  THEN [file_record EXCEPT !.metadata =
                                            DictUpdate(@, post.result.metadata_updates)]
                                  ELSE file_record)]]
    /\ TaskUnchanged

\* harvest.py:277-318: the grant requests are resolved and added, and the
\* task returns completed
ProcessAccessGrants(r) ==
    /\ tasks[r].pc = "grants"
    /\ LET task == Step(tasks[r], "access_grants")
       IN  tasks' = [tasks EXCEPT ![r] =
                IF AddGrantsRaises(task.requests) THEN Raise(task, "access_grants")
                ELSE Return(task, "completed")]
    /\ TaskUnchanged

\* a rollback that leaves the flushed FileRecord in the table
SessionRollbackKeepingRecord(records, transfers, grants, task) ==
    RolledBack(task.at,
               IF task.file_record # None THEN Append(records, task.file_record[1])
               ELSE records,
               transfers, grants, task.adapter_calls)

\* db.py:24-26: the rows of the session are discarded
SessionRollback(records, transfers, grants, task) ==
    RolledBack(task.at, records, transfers, grants, task.adapter_calls)

\* db.py:22: the rows of the session are committed; primary keys are the
\* positions in the tables
SessionCommit(records, transfers, grants, task) ==
    LET file_id == Len(records) + 1
    IN  Committed(task.status, Append(records, task.file_record[1]),
                  Append(transfers, [task.transfer[1] EXCEPT !.file_id = file_id]),
                  AddGrants(grants, file_id, task.requests, 1), task.adapter_calls)

TaskEnds(r, t) ==
    /\ FlowAfterTransfer(r, t)
    /\ tasks' = [tasks EXCEPT ![r] =
            [IdleTask EXCEPT !.adapter_calls = tasks[r].adapter_calls]]
    /\ UNCHANGED <<callVars, hookVars, acc_admins, acc_owner, group_memberships,
                   project_memberships, acc_last, cfg, starts>>

\* the task returned: get_db_session commits, and the flow takes the result
Commit(r) ==
    /\ tasks[r].pc = "returning"
    /\ TaskEnds(r, SessionCommit(file_records, file_transfers, file_access_grants, tasks[r]))

\* the task raised: get_db_session rolls back and re-raises, and Prefect
\* retries the task or the run raises
Rollback(r) ==
    /\ tasks[r].pc = "raised"
    /\ TaskEnds(r, SessionRollback(file_records, file_transfers, file_access_grants, tasks[r]))

\* harvest_instrument_flow is called: the run starts with no adapter call
\* made; each call has a place of its own
StartFlowSteps(r, instrument_id) ==
    /\ starts < MaxStarts
    /\ runs[r].pc = "idle"
    /\ \A q \in Runs : q < r => runs[q].pc # "idle"
    /\ runs' = [runs EXCEPT ![r] = [IdleRun EXCEPT !.pc = "discover",
                                                   !.instrument_id = instrument_id]]
    /\ starts' = starts + 1
    /\ tasks' = [tasks EXCEPT ![r] = IdleTask]
    /\ UNCHANGED <<callVars, hookVars, accessVars, cfg, file_records, file_transfers>>

NextSteps ==
    \/ \E r \in Runs, instrument_id \in Instruments : StartFlowSteps(r, instrument_id)
    \/ \E r \in Runs, outcome \in DiscoverOutcomes : DiscoverFilesTask(r, outcome)
    \/ \E r \in Runs : LoadRows(r)
    \/ \E r \in Runs : MintStep(r)
    \/ \E r \in Runs, lock_timeout \in BOOLEAN : InsertFileRecord(r, lock_timeout)
    \/ \E r \in Runs : PreTransferHooks(r)
    \/ \E r \in Runs, db_error \in BOOLEAN : AddTransfer(r, db_error)
    \/ \E r \in Runs, outcome \in TransferOutcomes : TransferFile(r, outcome)
    \/ \E r \in Runs : PostTransferHooks(r)
    \/ \E r \in Runs : ProcessAccessGrants(r)
    \/ \E r \in Runs : Commit(r)
    \/ \E r \in Runs : Rollback(r)

SpecSteps == InitSteps /\ [][NextSteps]_vars

\* ---------------------------------------------------------------- SpecSteps, claims
\* models/transfer.py:12-17: the statuses, and the edges of the lifecycle
TransferStatus == {"pending", "in_progress", "completed", "failed", "skipped"}
TerminalStatus == {"completed", "failed", "skipped"}
LifecycleEdges ==
    {<<"pending", "in_progress">>} \cup {<<"in_progress", s>> : s \in TerminalStatus}

\* the FileTransfer row of run r's session before and after a step is the same
\* row when both exist: a session ends between two executions
StatusOf(row) == row[1].status

\* C21: the status of a FileTransfer row changes only along the edges pending ->
\* in_progress -> {completed, failed, skipped}: a row of a session changes
\* status only along an edge, so never after completed, failed or skipped; the
\* commit writes the row with the status it has; and a committed row never
\* changes status
C21_TransferLifecycle ==
    [][/\ \A r \in Runs :
            (tasks[r].transfer # None /\ tasks'[r].transfer # None
                    /\ StatusOf(tasks'[r].transfer) # StatusOf(tasks[r].transfer))
                => /\ <<StatusOf(tasks[r].transfer), StatusOf(tasks'[r].transfer)>>
                        \in LifecycleEdges
                   /\ StatusOf(tasks[r].transfer) \notin TerminalStatus
       /\ \A n \in DOMAIN file_transfers :
            /\ n \in DOMAIN file_transfers'
            /\ file_transfers'[n].status = file_transfers[n].status
       /\ \A n \in DOMAIN file_transfers' \ DOMAIN file_transfers :
            \E r \in Runs : /\ tasks[r].transfer # None
                            /\ tasks'[r].transfer = None
                            /\ file_transfers'[n].status = StatusOf(tasks[r].transfer)
                            /\ file_transfers'[n].status \in TransferStatus
      ]_vars

\* rows of all three final statuses are committed while a session holds a row
\* that went from in_progress to completed
C21_Witness ==
    /\ \A s \in TerminalStatus : \E n \in DOMAIN file_transfers : file_transfers[n].status = s
    /\ \E r \in Runs : /\ tasks[r].transfer # None
                       /\ StatusOf(tasks[r].transfer) = "completed"

\* ---------------------------------------------------------------- SpecRclone
\* The SMB adapter: RcloneAdapter instances as create_adapter builds them, and
\* the subprocesses they run. A command line is a sequence of words and a word
\* the sequence of the pieces it is formatted from.
MaxProcesses == 4
AdapterIds == {1, 2}
ReturnCodes == {0, 1}
Stderrs == {"", "NT_STATUS_LOGON_FAILURE"}

\* what `rclone obscure` prints for the passwords of the model
OBSCURED == ("hunter2" :> "Qm9FzkN2nY0pT1") @@ ("s3cret" :> "x81LwcZrEaa0Vg")

\* two instruments (cifs_host, cifs_share, cifs_base_path) with their service
\* accounts (username, password_encrypted, domain)
ServiceAccount(a) ==
    IF a = 1
    THEN [host |-> "nas1", share |-> "data", base_path |-> "/", username |-> "svc1",
          password_encrypted |-> <<"fernet", "hunter2">>, domain |-> "WORKGROUP"]
    ELSE [host |-> "nas2", share |-> "scope", base_path |-> "/raw", username |-> "svc2",
          password_encrypted |-> <<"fernet", "s3cret">>, domain |-> "LAB"]

\* decrypt_value(token)
DecryptValue(token) == token[2]

\* rclone.py:24-42
RcloneAdapter(smb_host, smb_share, smb_base_path, smb_user, smb_password, smb_domain) ==
    [rclone_binary |-> "rclone", smb_host |-> smb_host, smb_share |-> smb_share,
     smb_base_path |-> smb_base_path, smb_user |-> smb_user,
     smb_password |-> smb_password, smb_domain |-> smb_domain,
     obscured_password |-> None]

\* factory.py:28-38
BuildAdapter(sa) ==
    RcloneAdapter(sa.host, sa.share, sa.base_path, sa.username,
                  DecryptValue(sa.password_encrypted), sa.domain)

\* a subprocess: who ran it, its command line, the RCLONE_SMB_PASS of the
\* environment it was given (None when it inherits the environment), its exit
Process(by, args, env, returncode, stderr) ==
    [by |-> by, args |-> args, env |-> env, returncode |-> returncode, stderr |-> stderr]

\* rclone.py:57-58: stdout.decode().strip() of `rclone obscure`, which prints
\* nothing on stdout when it fails
ObscureStdout(password, returncode) == IF returncode = 0 THEN OBSCURED[password] ELSE ""

\* rclone.py:44-59: _get_obscured_password; the exit code is not looked at
GetObscuredPassword(self, by, returncode) ==
    IF self.obscured_password # None
    THEN [self |-> self, ran |-> <<>>, value |-> self.obscured_password[1]]
    ELSE [self |-> [self EXCEPT !.obscured_password =
                        Some(ObscureStdout(self.smb_password, returncode))],
          ran |-> <<Process(by, << <<self.rclone_binary>>, <<"obscure">>,
                                   <<self.smb_password>> >>, None, returncode, "")>>,
          value |-> ObscureStdout(self.smb_password, returncode)]

\* rclone.py:61-66
RemotePath(self, path) ==
    <<":smb:">> \o (IF path # ""
                    THEN IF self.smb_base_path # "/"
                         THEN <<self.smb_base_path, "/", path>>
                         ELSE <<"/", path>>
                    ELSE <<self.smb_base_path>>)

\* rclone.py:68-76
BaseFlags(self) ==
    << <<"--smb-host">>, <<self.smb_host>>, <<"--smb-user">>, <<self.smb_user>>,
       <<"--smb-domain">>, <<self.smb_domain>> >>

\* what lsjson prints: a directory and a file, or nothing
LsEntry(path, name, size, is_dir) == [Path |-> path, Name |-> name, Size |-> size, IsDir |-> is_dir]
LsOutputs == { <<>>, <<LsEntry("e", "e", 0, TRUE), LsEntry("e/a.tmp", "a.tmp", 10, FALSE)>> }

\* rclone.py:108-124
FilesOf(entries) ==
    LET kept == SelectSeq(entries, LAMBDA e : ~e.IsDir)
    IN  [n \in DOMAIN kept |-> [path |-> kept[n].Path, filename |-> kept[n].Name,
                                 size_bytes |-> kept[n].Size]]

\* an error text with the exit code and the error stream formatted into it
ErrorMessage(text, returncode, stderr) == [text |-> text, rc |-> returncode, stderr |-> stderr]
NoError == ErrorMessage("", 0, "")

\* what an operation of the adapter gave, and the subprocesses it ran
Outcome(op, raised, success, error, files, ran) ==
    [op |-> op, raised |-> raised, success |-> success, error |-> error,
     files |-> files, ran |-> ran]

\* rclone.py:96-102: the command line of the listing
ListArgs(self) ==
    << <<self.rclone_binary>>, <<"lsjson">>, <<"--recursive">> >>
        \o BaseFlags(self) \o <<RemotePath(self, "")>>

\* rclone.py:132-138: the command line of the copy
CopyArgs(self, source_path, destination_path) ==
    << <<self.rclone_binary>>, <<"copyto">> >> \o BaseFlags(self)
        \o <<RemotePath(self, source_path), <<destination_path>> >>

\* rclone.py:94-124: discover()
Discover(self, by, obscure_rc, returncode, stderr, entries) ==
    LET o == GetObscuredPassword(self, by, obscure_rc)
        run == Process(by, ListArgs(self), Some(o.value), returncode, stderr)
    IN  [self |-> o.self,
         out |-> IF returncode # 0
                 THEN Outcome("discover", TRUE, FALSE,
                              ErrorMessage("rclone lsjson failed", returncode, stderr),
                              <<>>, Append(o.ran, run))
                 ELSE Outcome("discover", FALSE, TRUE, NoError, FilesOf(entries),
                              Append(o.ran, run))]

\* rclone.py:126-168: transfer_file(source_path, destination_path)
TransferFileResult(self, by, source_path, destination_path, obscure_rc, returncode, stderr, dest_exists) ==
    LET o == GetObscuredPassword(self, by, obscure_rc)
        run == Process(by, CopyArgs(self, source_path, destination_path),
                       Some(o.value), returncode, stderr)
    IN  [self |-> o.self,
         out |-> IF returncode # 0
                 THEN Outcome("transfer_file", FALSE, FALSE,
                              ErrorMessage("rclone copyto failed", returncode, stderr),
                              <<>>, Append(o.ran, run))
                 ELSE IF ~dest_exists
                 THEN Outcome("transfer_file", FALSE, FALSE,
                              ErrorMessage("Destination file not found after transfer", 0, ""),
                              <<>>, Append(o.ran, run))
                 ELSE Outcome("transfer_file", FALSE, TRUE, NoError, <<>>,
                              Append(o.ran, run))]

InitRclone ==
    /\ HooksOff
    /\ AccessOff
    /\ HarvestOff
    /\ call_pc = "ready"
    /\ call_args = <<>>
    /\ call_result = [a \in AdapterIds |-> None]
    /\ minted = <<>>
    /\ adapters = [a \in AdapterIds |-> None]
    /\ processes = <<>>
    /\ coroutines = <<>>

RcloneUnchanged == UNCHANGED <<hookVars, accessVars, harvestVars, call_pc, call_args, minted, coroutines>>

\* factory.py:12-38: a task builds its adapter; the instance it held before is dropped
CreateAdapter(a) ==
    /\ adapters' = [adapters EXCEPT ![a] = Some(BuildAdapter(ServiceAccount(a)))]
    /\ call_result' = [call_result EXCEPT ![a] = None]
    /\ UNCHANGED processes
    /\ RcloneUnchanged

\* the subprocesses of a call are run, and the call gives its outcome
Ran(a, d) ==
    /\ Len(processes) + Len(d.out.ran) <= MaxProcesses
    /\ adapters' = [adapters EXCEPT ![a] = Some(d.self)]
    /\ processes' = processes \o d.out.ran
    /\ call_result' = [call_result EXCEPT ![a] = Some(d.out)]
    /\ RcloneUnchanged

\* the exit code of `rclone obscure` matters only when it is run
ObscureRuns(a, obscure_rc) ==
    /\ adapters[a] # None
    /\ adapters[a][1].obscured_password # None => obscure_rc = 0

DiscoverCall(a, obscure_rc, returncode, stderr, entries) ==
    /\ ObscureRuns(a, obscure_rc)
    /\ returncode = 0 => stderr = ""
    /\ returncode # 0 => entries = <<>>
    /\ Ran(a, Discover(adapters[a][1], a, obscure_rc, returncode, stderr, entries))

TransferFileCall(a, obscure_rc, returncode, stderr, dest_exists) ==
    /\ ObscureRuns(a, obscure_rc)
    /\ returncode = 0 => stderr = ""
    /\ returncode # 0 => ~dest_exists
    /\ Ran(a, TransferFileResult(adapters[a][1], a, "e/a.tmp", "/store/m1/e/a.tmp",
                                 obscure_rc, returncode, stderr, dest_exists))

NextRclone ==
    \/ \E a \in AdapterIds : CreateAdapter(a)
    \/ \E a \in AdapterIds, obscure_rc \in ReturnCodes, returncode \in ReturnCodes, stderr \in Stderrs, entries \in LsOutputs : DiscoverCall(a, obscure_rc, returncode, stderr, entries)
    \/ \E a \in AdapterIds, obscure_rc \in ReturnCodes, returncode \in ReturnCodes, stderr \in Stderrs, dest_exists \in BOOLEAN : TransferFileCall(a, obscure_rc, returncode, stderr, dest_exists)

SpecRclone == InitRclone /\ [][NextRclone]_vars

\* ---------------------------------------------------------------- SpecRclone, claims
\* the outcome of the call adapter a made last
LastOutcome(a) == call_result[a][1]
Surfaced(out) == IF out.op = "discover" THEN out.raised ELSE ~out.success
CommandOf(process) == process.args[2][1]

\* the nonzero exits of lsjson and copyto are surfaced with the exit code and
\* the error stream, and a copy that leaves no destination file is failed
C22_ListAndCopySurface ==
    \A a \in AdapterIds : call_result[a] # None =>
        \A n \in DOMAIN LastOutcome(a).ran :
            LET process == LastOutcome(a).ran[n]
            IN  (CommandOf(process) \in {"lsjson", "copyto"} /\ process.returncode # 0)
                    => /\ Surfaced(LastOutcome(a))
                       /\ LastOutcome(a).error.rc = process.returncode
                       /\ LastOutcome(a).error.stderr = process.stderr

\* C22: every nonzero exit of a subprocess the adapter runs is surfaced and
\* never treated as success: a call that ran a subprocess which exited nonzero
\* raises (discover) or returns a failed TransferResult (transfer_file)
C22_NonzeroExitsSurface ==
    \A a \in AdapterIds : call_result[a] # None =>
        \A n \in DOMAIN LastOutcome(a).ran :
            LastOutcome(a).ran[n].returncode # 0 => Surfaced(LastOutcome(a))

\* a copy exited nonzero and gave a failed TransferResult carrying the error
\* stream, and a listing exited nonzero and raised
C22_Witness ==
    \E a, b \in AdapterIds :
        /\ call_result[a] # None /\ call_result[b] # None
        /\ LastOutcome(a).op = "transfer_file" /\ ~LastOutcome(a).success
        /\ LastOutcome(a).error.stderr = "NT_STATUS_LOGON_FAILURE"
        /\ LastOutcome(b).op = "discover" /\ LastOutcome(b).raised

\* the password of the adapter that ran the process, in the clear
CleartextOf(process) == DecryptValue(ServiceAccount(process.by).password_encrypted)
InArgs(process, text) ==
    \E w \in DOMAIN process.args : \E k \in DOMAIN process.args[w] : process.args[w][k] = text

\* the listing and the copy get the password through RCLONE_SMB_PASS only, in
\* the form `rclone obscure` printed, and not in their command line
C24_TransferUtilityGetsObscured ==
    \A n \in DOMAIN processes :
        CommandOf(processes[n]) \in {"lsjson", "copyto"}
            => /\ ~InArgs(processes[n], CleartextOf(processes[n]))
               /\ processes[n].env \in {Some(OBSCURED[CleartextOf(processes[n])]), Some("")}

\* C24: no subprocess the adapter runs carries the cleartext password in its
\* arguments or in its environment
C24_NoCleartextInProcesses ==
    \A n \in DOMAIN processes :
        /\ ~InArgs(processes[n], CleartextOf(processes[n]))
        /\ processes[n].env # Some(CleartextOf(processes[n]))

\* a listing and a copy were run with the obscured password in RCLONE_SMB_PASS
C24_Witness ==
    \E n, k \in DOMAIN processes :
        /\ CommandOf(processes[n]) = "lsjson" /\ CommandOf(processes[k]) = "copyto"
        /\ processes[n].env = Some(OBSCURED[CleartextOf(processes[n])])
        /\ processes[k].env = Some(OBSCURED[CleartextOf(processes[k])])

\* ---------------------------------------------------------------- independence
\* what the database holds for instrument X, with the rows of a file named by
\* the file's path instead of its primary key
InstrumentRecords(records, X) == SelectSeq(records, LAMBDA row : row.instrument_id = X)
InstrumentTransfers(records, transfers, X) ==
    LET rows == SelectSeq(transfers, LAMBDA t : records[t.file_id].instrument_id = X)
    IN  [n \in DOMAIN rows |-> [rows[n] EXCEPT !.file_id = records[rows[n].file_id].source_path]]
InstrumentGrants(records, grants, X) ==
    {[source_path |-> records[g.file_id].source_path, grantee_type |-> g.grantee_type,
      grantee_id |-> g.grantee_id] :
        g \in {h \in grants : records[h.file_id].instrument_id = X}}
InstrumentView(records, transfers, grants, X) ==
    [records |-> InstrumentRecords(records, X),
     transfers |-> InstrumentTransfers(records, transfers, X),
     grants |-> InstrumentGrants(records, grants, X)]

\* the execution run r is ending, as it goes when the database holds the rows
\* of r's instrument only and nothing runs beside it
Alone(r, outcome) ==
    TransferSingleFile(cfg, InstrumentRecords(file_records, runs[r].instrument_id),
                       <<>>, {}, runs[r].instrument_id, runs[r].storage_location_id,
                       FileAt(r), outcome)

\* the outcomes the adapter may have given the execution run r is ending
OutcomesOf(r) ==
    IF tasks[r].outcome # None THEN {tasks[r].outcome[1]} ELSE TransferOutcomes

\* run r takes the step
StepOf(r) == runs'[r] # runs[r] \/ tasks'[r] # tasks[r]

\* the exceptions that come from the database and not from the task's inputs
DatabaseErrors == {"flush_locked", "flush_transfer"}

\* run r gives up waiting for the open transaction of another session
GivesUpWaiting(r) == tasks'[r].at = "flush_locked" /\ tasks[r].at # "flush_locked"

C23_AdaptersShareNothing ==
    [][\A a \in AdapterIds : adapters'[a] # adapters[a] =>
        /\ \A b \in AdapterIds \ {a} : adapters'[b] = adapters[b]
        /\ \A n \in DOMAIN processes' \ DOMAIN processes :
            LET process == processes'[n]
                self == adapters'[a][1]
            IN  /\ process.by = a
                /\ CommandOf(process) \in {"lsjson", "copyto"}
                    => /\ InArgs(process, self.smb_host) /\ InArgs(process, self.smb_user)
                       /\ \A b \in AdapterIds \ {a} :
                            /\ ~InArgs(process, ServiceAccount(b).host)
                            /\ ~InArgs(process, ServiceAccount(b).username)
                            /\ process.env # Some(OBSCURED[CleartextOf([by |-> b])])
      ]_vars

\* ---------------------------------------------------------------- SpecDiscovery
\* Discovery against a database in which other sessions commit FileRecords:
\* discover_new_files(instrument_id, discovered, session) is called up to
\* MaxDiscoveries times with the same arguments.
MaxListed == 2
MaxDiscoveries == 2

\* what the adapter may have listed: any sequence of entries, repeats included
ListedFiles == UNION { [1..n -> {File_a, File_b}] : n \in 0..MaxListed }

\* discovery.py:20-25: the SELECTs the call executes
LookupsOf(discovered) == IF discovered = <<>> THEN 0 ELSE 1

\* a discovery that records what it found new
RecordsAfterRecordingDiscovery(records, instrument_id, new_files) ==
    records \o [n \in DOMAIN new_files |-> FileRecord(instrument_id, new_files[n], "ark")]

\* harvest.py:64-112: the session of discover_files_task adds no row
RecordsAfterDiscovery(records, instrument_id, new_files) == records

InitDiscovery ==
    /\ HooksOff
    /\ AccessOff
    /\ HarvestOff
    /\ call_pc = "ready"
    /\ call_args \in {[instrument_id |-> i, discovered |-> l] :
                         i \in Instruments, l \in ListedFiles}
    /\ call_result = <<>>
    /\ minted = <<>>
    /\ RcloneOff

\* one call: what it returned, how many lookups it made, and the table it read
DiscoverNewFilesCall ==
    /\ Len(call_result) < MaxDiscoveries
    /\ LET new_files == DiscoverNewFiles(file_records, call_args.instrument_id,
                                         call_args.discovered)
       IN  /\ call_result' = Append(call_result,
                                    [files |-> new_files,
                                     lookups |-> LookupsOf(call_args.discovered),
                                     records |-> file_records])
           /\ file_records' = RecordsAfterDiscovery(file_records, call_args.instrument_id,
                                                    new_files)
    /\ UNCHANGED <<hookVars, accessVars, cfg, file_transfers, runs, starts, tasks,
                   call_pc, call_args, minted, adapters, processes, coroutines>>

\* the session of a transfer commits the FileRecord of a file with its
\* FileTransfer
CommitFileRecord(instrument_id, file_info) ==
    /\ Len(file_records) < MaxRows
    /\ ~UniqueViolation(file_records, FileRecord(instrument_id, file_info, "ark"))
    /\ file_records' = Append(file_records, FileRecord(instrument_id, file_info, "ark"))
    /\ file_transfers' = Append(file_transfers,
                                FileTransfer(Len(file_records) + 1, "completed",
                                             DefaultPath(instrument_id, file_info.path), ""))
    /\ UNCHANGED <<hookVars, accessVars, callVars, cfg, runs, starts, tasks>>

NextDiscovery ==
    \/ DiscoverNewFilesCall
    \/ \E instrument_id \in Instruments, file_info \in {File_a, File_b} : CommitFileRecord(instrument_id, file_info)

SpecDiscovery == InitDiscovery /\ [][NextDiscovery]_vars

\* ---------------------------------------------------------------- SpecDiscovery, claims
\* the entry at place n of the listing is not recorded for the instrument
NotRecorded(records, instrument_id, discovered, n) ==
    ~\E k \in DOMAIN records : /\ records[k].instrument_id = instrument_id
                               /\ records[k].source_path = discovered[n].path

\* the number of entries up to place n that are not recorded
NewUpTo(records, instrument_id, discovered, n) ==
    Cardinality({k \in 1..n : NotRecorded(records, instrument_id, discovered, k)})

C26_ExactlyTheUnrecorded ==
    \A c \in DOMAIN call_result :
        LET I == call_args.instrument_id
            L == call_args.discovered
            out == call_result[c]
        IN  /\ Len(out.files) = NewUpTo(out.records, I, L, Len(L))
            /\ \A n \in DOMAIN L :
                    NotRecorded(out.records, I, L, n)
                        => out.files[NewUpTo(out.records, I, L, n)] = L[n]
            /\ \A n \in DOMAIN L :
                    (/\ \E k \in DOMAIN out.records : /\ out.records[k].instrument_id # I
                                                       /\ out.records[k].source_path = L[n].path
                     /\ ~\E k \in DOMAIN out.records : /\ out.records[k].instrument_id = I
                                                        /\ out.records[k].source_path = L[n].path)
                        => \E m \in DOMAIN out.files : out.files[m] = L[n]
            /\ L = <<>> => out.files = <<>> /\ out.lookups = 0
            /\ L # <<>> => out.lookups = 1

\* a call returned an entry whose path is recorded for the other instrument
\* only and dropped an entry recorded for its own
C26_Witness ==
    \E c \in DOMAIN call_result :
        LET I == call_args.instrument_id
            L == call_args.discovered
            out == call_result[c]
        IN  /\ Len(L) = 2 /\ Len(out.files) = 1
            /\ \E k \in DOMAIN out.records : /\ out.records[k].instrument_id # I
                                             /\ out.records[k].source_path = out.files[1].path
            /\ \E k \in DOMAIN out.records, n \in DOMAIN L :
                    /\ out.records[k].instrument_id = I
                    /\ out.records[k].source_path = L[n].path

\* ---------------------------------------------------------------- SpecSteps, order
\* the steps of an execution in the order of harvest.py
StepOrder ==
    <<"load", "mint_identifier", "insert_file_record", "pre_hooks", "add_transfer",
      "transfer_file", "post_hooks", "access_grants">>
IsPrefix(s, t) == Len(s) <= Len(t) /\ \A n \in DOMAIN s : s[n] = t[n]
Place(trace, name) == CHOOSE n \in DOMAIN trace : trace[n] = name
Did(trace, name) == \E n \in DOMAIN trace : trace[n] = name
Before(trace, first, second) ==
    Did(trace, second) => Did(trace, first) /\ Place(trace, first) < Place(trace, second)

\* C27 as stated: the pre-transfer hooks run before the identifier is minted
\* and before the FileRecord is inserted, and these before the adapter's
\* transfer, and the post-transfer hooks after it
C27_AsStated ==
    \A r \in Runs :
        /\ Before(tasks[r].trace, "pre_hooks", "mint_identifier")
        /\ Before(tasks[r].trace, "pre_hooks", "insert_file_record")
        /\ Before(tasks[r].trace, "insert_file_record", "transfer_file")
        /\ Before(tasks[r].trace, "transfer_file", "post_hooks")

\* C27, amended: for each new file the steps happen in the order identifier
\* minting, FileRecord insert, pre-transfer hooks, in_progress FileTransfer,
\* adapter transfer, post-transfer hooks, access grants, each at most once in
\* an execution; the pre-transfer hooks run after the FileRecord is inserted
\* and before the adapter's transfer
C27_StepOrder ==
    \A r \in Runs :
        /\ IsPrefix(tasks[r].trace, StepOrder)
        /\ Before(tasks[r].trace, "mint_identifier", "insert_file_record")
        /\ Before(tasks[r].trace, "insert_file_record", "pre_hooks")
        /\ Before(tasks[r].trace, "pre_hooks", "transfer_file")
        /\ Before(tasks[r].trace, "transfer_file", "post_hooks")

\* an execution went through every step, and another was skipped by its
\* pre-transfer hooks with its FileRecord inserted
C27_Witness ==
    \E r, q \in Runs :
        /\ tasks[r].trace = StepOrder
        /\ tasks[q].status = "skipped" /\ tasks[q].file_record # None
        /\ ~Did(tasks[q].trace, "transfer_file")

\* ---------------------------------------------------------------- SpecSteps, metadata
\* the post-transfer hooks of run r's instrument hold a metadata-sourced rule
\* on key k in an access_assignment hook
HasMetadataRule(r, k) ==
    \E n \in DOMAIN InstrumentHooks(runs[r].instrument_id) :
        LET hook == InstrumentHooks(runs[r].instrument_id)[n]
        IN  /\ hook.trigger = "post_transfer" /\ hook.enabled
            /\ hook.builtin_name = "access_assignment"
            /\ \E g \in DOMAIN hook.config.grants :
                    /\ hook.config.grants[g].source = "metadata"
                    /\ hook.config.grants[g].match_field = k

\* the post-transfer hooks of run r have run and a metadata_enrichment hook
\* among them captured a value for k, which is merged into the FileRecord
Captured(r, k) ==
    /\ tasks[r].pc = "grants"
    /\ k \in DOMAIN tasks[r].file_record[1].metadata

\* C28: when a metadata-enrichment hook that ran earlier in the post-transfer
\* phase captured a value for key k, a later access-assignment hook with a
\* metadata-sourced rule on k emits a grant request carrying k and that value
C28_MetadataReachesLaterHooks ==
    \A r \in Runs : \A k \in {"ext", "k"} :
        (Captured(r, k) /\ HasMetadataRule(r, k))
            => \E n \in DOMAIN tasks[r].requests :
                    /\ tasks[r].requests[n].kind = "resolve_value"
                    /\ tasks[r].requests[n].resolve_field = k
                    /\ tasks[r].requests[n].resolve_value = tasks[r].file_record[1].metadata[k]

\* the post-transfer hooks of a file have run: the enrichment hook of priority
\* 0 captured ext, and the access-assignment hook of priority 1, which has a
\* metadata-sourced rule on ext, returned its literal requests
C28_Witness ==
    \E r \in Runs :
        /\ Captured(r, "ext") /\ HasMetadataRule(r, "ext")
        /\ tasks[r].file_record[1].metadata["ext"] = <<"t", "i", "f">>
        /\ Len(tasks[r].requests) = 2

\* ---------------------------------------------------------------- SpecSteps, atomicity
\* every FileRecord of the tables has a FileTransfer and every FileTransfer
\* refers to a FileRecord
Linked(records, transfers) ==
    /\ \A n \in DOMAIN records : \E t \in DOMAIN transfers : transfers[t].file_id = n
    /\ \A t \in DOMAIN transfers : transfers[t].file_id \in DOMAIN records

TablesChange ==
    \/ file_records' # file_records
    \/ file_transfers' # file_transfers
    \/ file_access_grants' # file_access_grants

\* C29: a FileRecord and its FileTransfer rows are committed together or not at
\* all: in every committed state every FileRecord has a FileTransfer and every
\* FileTransfer refers to a FileRecord; the tables change only at the commit of
\* an execution that returned, which adds one FileRecord with its FileTransfer
\* and only grants of that file; and the end of an execution that raised
\* leaves the FileRecords, the FileTransfers and the grants as they were
C29_CommittedTogether ==
    [][/\ Linked(file_records', file_transfers')
       /\ TablesChange
            => \E r \in Runs :
                    /\ tasks[r].pc = "returning" /\ tasks'[r].pc = "idle"
                    /\ file_records' = Append(file_records, tasks[r].file_record[1])
                    /\ Len(file_transfers') = Len(file_transfers) + 1
                    /\ file_transfers'[Len(file_transfers')].file_id = Len(file_records')
                    /\ file_access_grants \subseteq file_access_grants'
                    /\ \A g \in file_access_grants' \ file_access_grants :
                            g.file_id = Len(file_records')
       /\ \A r \in Runs : (tasks[r].pc = "raised" /\ StepOf(r)) => ~TablesChange
      ]_vars

\* an execution raised with its FileRecord and its FileTransfer flushed, while
\* the tables hold committed rows
C29_Witness ==
    \E r \in Runs :
        /\ tasks[r].pc = "raised"
        /\ tasks[r].file_record # None /\ tasks[r].transfer # None
        /\ file_records # <<>>

\* ---------------------------------------------------------------- SpecSteps, same instrument
\* run r has invoked the adapter's transfer for path p, in any of its executions
Transferred(r, p) ==
    \E n \in DOMAIN tasks[r].adapter_calls : tasks[r].adapter_calls[n].source_path = p

\* run r found path p new at its discovery
FoundNew(r, p) == \E n \in DOMAIN runs[r].new_files : runs[r].new_files[n].path = p

RanPostHooks(r) == \E i \in DOMAIN tasks[r].trace : tasks[r].trace[i] = "post_hooks"

\* the grant rows of a file
GrantsOf(file_id) == {g \in file_access_grants : g.file_id = file_id}

\* C31: the post-transfer phase belongs to a successful transfer only. An
\* execution that has run the post-transfer hooks got a successful result from
\* the adapter, and the context it gave them carries transfer_success = TRUE
\* and the destination checksum of that result; an execution that has not run
\* them holds no grant request and a FileRecord with empty metadata; and a
\* file whose committed transfer is skipped or failed has empty metadata and
\* no grant
C31_PostPhaseOnlyAfterSuccess ==
    /\ \A r \in Runs :
        IF RanPostHooks(r)
        THEN /\ tasks[r].outcome # None
             /\ tasks[r].outcome[1].kind = "result"
             /\ tasks[r].outcome[1].success
             /\ tasks[r].hook_ctx[1].transfer_success
             /\ tasks[r].hook_ctx[1].checksum = tasks[r].outcome[1].dest_checksum
        ELSE /\ tasks[r].requests = <<>>
             /\ tasks[r].file_record # None => tasks[r].file_record[1].metadata = EmptyDict
    /\ \A n \in DOMAIN file_transfers :
        file_transfers[n].status \in {"skipped", "failed"}
            => /\ file_records[file_transfers[n].file_id].metadata = EmptyDict
               /\ GrantsOf(file_transfers[n].file_id) = {}

\* a skipped and a failed file are committed, and an execution that ran the
\* post-transfer hooks is returning with metadata and grant requests from them
C31_Witness ==
    /\ \E n \in DOMAIN file_transfers : file_transfers[n].status = "skipped"
    /\ \E n \in DOMAIN file_transfers : file_transfers[n].status = "failed"
    /\ \E r \in Runs :
        /\ RanPostHooks(r)
        /\ tasks[r].pc = "returning"
        /\ tasks[r].file_record[1].metadata # EmptyDict
        /\ tasks[r].requests # <<>>

\* the successful results adapter.transfer_file may return
SuccessfulResults == {o \in TransferOutcomes : o.kind = "result" /\ o.success}

\* C32: a completed FileTransfer carries what the adapter returned. In the
\* session of an execution a completed row has the byte count and the
\* destination checksum of the TransferResult the execution got, and its
\* FileRecord has that checksum as content hash; and every committed completed
\* row has the byte count and checksum of a successful result, its FileRecord
\* having the same checksum as content hash
C32_CompletedCarriesResult ==
    /\ \A r \in Runs :
        (tasks[r].transfer # None /\ tasks[r].transfer[1].status = "completed")
            => /\ tasks[r].outcome \in {Some(o) : o \in SuccessfulResults}
               /\ tasks[r].transfer[1].bytes_transferred = tasks[r].outcome[1].bytes_transferred
               /\ tasks[r].transfer[1].dest_checksum = tasks[r].outcome[1].dest_checksum
               /\ tasks[r].file_record[1].xxhash = tasks[r].outcome[1].dest_checksum
    /\ \A n \in DOMAIN file_transfers :
        file_transfers[n].status = "completed"
            => /\ \E o \in SuccessfulResults :
                    /\ file_transfers[n].bytes_transferred = o.bytes_transferred
                    /\ file_transfers[n].dest_checksum = o.dest_checksum
               /\ file_records[file_transfers[n].file_id].xxhash = file_transfers[n].dest_checksum

\* a completed transfer is committed whose byte count is not the size the
\* listing gave for the file
C32_Witness ==
    \E n \in DOMAIN file_transfers :
        /\ file_transfers[n].status = "completed"
        /\ file_transfers[n].dest_checksum # EmptyStr
        /\ file_transfers[n].bytes_transferred # file_records[file_transfers[n].file_id].size_bytes

\* ---------------------------------------------------------------- SpecAwait
\* The calls on the adapter instances as coroutines, which the event loop
\* interleaves at their awaits: _get_obscured_password awaits the start and the
\* end of `rclone obscure` between its test of the cache and its assignment to
\* it, and _run awaits the subprocess it starts. A coroutine that finds the
\* cache filled goes on to _run without giving up control.
Coroutines == {1, 2}
AdapterOps == {"discover", "transfer_file"}
IdleCoroutine ==
    [pc |-> "idle", a |-> 0, op |-> "", proc |-> 0, env |-> None, returncode |-> 0,
     stderr |-> "", result |-> None]

\* the coroutines inside a call
InCall == {c \in Coroutines : coroutines[c].pc \in {"called", "obscuring", "running"}}

InitAwait ==
    /\ HooksOff
    /\ AccessOff
    /\ HarvestOff
    /\ call_pc = "ready"
    /\ call_args = <<>>
    /\ call_result = <<>>
    /\ minted = <<>>
    /\ adapters = [a \in AdapterIds |-> Some(BuildAdapter(ServiceAccount(a)))]
    /\ processes = <<>>
    /\ coroutines = [c \in Coroutines |-> IdleCoroutine]

AwaitUnchanged == UNCHANGED <<hookVars, accessVars, harvestVars, call_pc, call_args, call_result, minted>>

\* rclone.py:83-89: _run starts the subprocess of the call with the value of
\* RCLONE_SMB_PASS it was given
StartRun(c, value, returncode, stderr) ==
    LET self == adapters[coroutines[c].a][1]
        args == IF coroutines[c].op = "discover" THEN ListArgs(self)
                ELSE CopyArgs(self, "e/a.tmp", "/store/m1/e/a.tmp")
    IN  [coroutine |-> [coroutines[c] EXCEPT !.pc = "running", !.env = Some(value),
                                             !.returncode = returncode, !.stderr = stderr],
         process |-> Process(coroutines[c].a, args, Some(value), returncode, stderr)]

\* a coroutine calls discover() or transfer_file() on an adapter instance
CallAdapter(c, a, op) ==
    /\ coroutines[c].pc \in {"idle", "done"}
    /\ Len(processes) + 2 * (Cardinality(InCall) + 1) <= MaxProcesses
    /\ coroutines' = [coroutines EXCEPT ![c] = [IdleCoroutine EXCEPT !.pc = "called",
                                                                   !.a = a, !.op = op]]
    /\ UNCHANGED <<adapters, processes>>
    /\ AwaitUnchanged

\* rclone.py:49-56 and 59: the test of the cache. When it is empty the
\* coroutine starts `rclone obscure` and waits for it; when it is filled the
\* coroutine takes the cached value and starts the subprocess of the call
EnterGetObscuredPassword(c, obscure_rc, returncode, stderr) ==
    /\ coroutines[c].pc = "called"
    /\ returncode = 0 => stderr = ""
    /\ LET self == adapters[coroutines[c].a][1]
           run == StartRun(c, self.obscured_password[1], returncode, stderr)
       IN  IF self.obscured_password = None
           THEN /\ returncode = 0
                /\ coroutines' = [coroutines EXCEPT ![c].pc = "obscuring",
                                                    ![c].proc = Len(processes) + 1]
                /\ processes' = Append(processes,
                                       Process(coroutines[c].a,
                                               << <<self.rclone_binary>>, <<"obscure">>,
                                                  <<self.smb_password>> >>,
                                               None, obscure_rc, ""))
           ELSE /\ obscure_rc = 0
                /\ coroutines' = [coroutines EXCEPT ![c] = run.coroutine]
                /\ processes' = Append(processes, run.process)
    /\ UNCHANGED adapters
    /\ AwaitUnchanged

\* rclone.py:57-59: the `rclone obscure` the coroutine started has ended; its
\* output is stored in the cache and returned, and the coroutine starts the
\* subprocess of the call
ObscureReturns(c, returncode, stderr) ==
    /\ coroutines[c].pc = "obscuring"
    /\ returncode = 0 => stderr = ""
    /\ LET a == coroutines[c].a
           value == ObscureStdout(adapters[a][1].smb_password,
                                  processes[coroutines[c].proc].returncode)
           run == StartRun(c, value, returncode, stderr)
       IN  /\ adapters' = [adapters EXCEPT ![a] =
                              Some([adapters[a][1] EXCEPT !.obscured_password = Some(value)])]
           /\ coroutines' = [coroutines EXCEPT ![c] = run.coroutine]
           /\ processes' = Append(processes, run.process)
    /\ AwaitUnchanged

\* rclone.py:90-92 and what discover() and transfer_file() make of the exit
RunReturns(c, entries, dest_exists) ==
    /\ coroutines[c].pc = "running"
    /\ coroutines[c].returncode # 0 => entries = <<>> /\ ~dest_exists
    /\ coroutines[c].op = "discover" => ~dest_exists
    /\ coroutines[c].op = "transfer_file" => entries = <<>>
    /\ LET co == coroutines[c]
           self == [adapters[co.a][1] EXCEPT !.obscured_password = co.env]
           out == IF co.op = "discover"
                  THEN Discover(self, co.a, 0, co.returncode, co.stderr, entries).out
                  ELSE TransferFileResult(self, co.a, "e/a.tmp", "/store/m1/e/a.tmp", 0,
                                          co.returncode, co.stderr, dest_exists).out
       IN  coroutines' = [coroutines EXCEPT ![c].pc = "done", ![c].result = Some(out)]
    /\ UNCHANGED <<adapters, processes>>
    /\ AwaitUnchanged

NextAwait ==
    \/ \E c \in Coroutines, a \in AdapterIds, op \in AdapterOps : CallAdapter(c, a, op)
    \/ \E c \in Coroutines, obscure_rc \in ReturnCodes, returncode \in ReturnCodes, stderr \in Stderrs : EnterGetObscuredPassword(c, obscure_rc, returncode, stderr)
    \/ \E c \in Coroutines, returncode \in ReturnCodes, stderr \in Stderrs : ObscureReturns(c, returncode, stderr)
    \/ \E c \in Coroutines, entries \in LsOutputs, dest_exists \in BOOLEAN : RunReturns(c, entries, dest_exists)

SpecAwait == InitAwait /\ [][NextAwait]_vars

\* ---------------------------------------------------------------- SpecAwait, claims
\* the `rclone obscure` processes of adapter a, and its listings and copies
ObscureProcesses(a) ==
    {n \in DOMAIN processes : processes[n].by = a /\ CommandOf(processes[n]) = "obscure"}
TransferProcesses(a) ==
    {n \in DOMAIN processes : processes[n].by = a /\ CommandOf(processes[n]) \in {"lsjson", "copyto"}}

\* a coroutine that finds the cache filled starts no `rclone obscure` and
\* gives the subprocess of its call the cached value
C33_FilledCacheIsUsed ==
    [][\A c \in Coroutines :
        (coroutines[c].pc = "called" /\ coroutines'[c].pc # "called"
            /\ adapters[coroutines[c].a][1].obscured_password # None)
            => /\ Len(processes') = Len(processes) + 1
               /\ CommandOf(processes'[Len(processes')]) \in {"lsjson", "copyto"}
               /\ processes'[Len(processes')].env = adapters[coroutines[c].a][1].obscured_password
      ]_vars

\* C33: for one adapter instance, over any interleaving of discover and
\* transfer calls, `rclone obscure` is run at most once, and all listings and
\* copies of the instance get the same value of RCLONE_SMB_PASS
C33_ObscuredOnce ==
    \A a \in AdapterIds :
        /\ Cardinality(ObscureProcesses(a)) <= 1
        /\ \A n, k \in TransferProcesses(a) : processes[n].env = processes[k].env

\* an instance has served a listing and a copy one after the other with one
\* run of `rclone obscure`
C33_Witness ==
    \E a \in AdapterIds :
        /\ Cardinality(ObscureProcesses(a)) = 1
        /\ \E n, k \in TransferProcesses(a) :
            /\ CommandOf(processes[n]) = "lsjson" /\ CommandOf(processes[k]) = "copyto"
            /\ processes[n].env = processes[k].env
        /\ \A c \in Coroutines : coroutines[c].pc \in {"idle", "done"}

\* ---------------------------------------------------------------- SpecRclone, command lines
\* the listing or copy carries the value after the flag
HasFlag(process, flag, value) ==
    \E w \in DOMAIN process.args :
        /\ w + 1 \in DOMAIN process.args
        /\ process.args[w] = <<flag>>
        /\ process.args[w + 1] = <<value>>
ListsAndCopies == {n \in DOMAIN processes : CommandOf(processes[n]) \in {"lsjson", "copyto"}}

\* every listing and copy carries the host, the user and the domain as flags
\* and gets what `rclone obscure` printed as RCLONE_SMB_PASS; the listing
\* carries --recursive, and the copy the source path below the remote and the
\* destination path
C34_HostUserDomainAndPaths ==
    \A n \in ListsAndCopies :
        LET process == processes[n]
            sa == ServiceAccount(process.by)
        IN  /\ HasFlag(process, "--smb-host", sa.host)
            /\ HasFlag(process, "--smb-user", sa.username)
            /\ HasFlag(process, "--smb-domain", sa.domain)
            /\ process.env \in {Some(OBSCURED[CleartextOf(process)]), Some("")}
            /\ CommandOf(process) = "lsjson" => InArgs(process, "--recursive")
            /\ CommandOf(process) = "copyto"
                    => /\ InArgs(process, "e/a.tmp")
                       /\ process.args[Len(process.args)] = <<"/store/m1/e/a.tmp">>

\* C34: every listing and every copy the adapter builds carries the
\* instrument's host, share, domain and user
C34_InvocationsCarryConnection ==
    \A n \in ListsAndCopies :
        LET process == processes[n]
            sa == ServiceAccount(process.by)
        IN  /\ InArgs(process, sa.host)
            /\ InArgs(process, sa.share)
            /\ InArgs(process, sa.domain)
            /\ InArgs(process, sa.username)

\* the adapter of instrument 1, whose share is data, has run a listing and a
\* copy with its host, user and domain
C34_Witness ==
    \E n, k \in ListsAndCopies :
        /\ processes[n].by = 1 /\ processes[k].by = 1
        /\ CommandOf(processes[n]) = "lsjson" /\ CommandOf(processes[k]) = "copyto"
        /\ ServiceAccount(1).share = "data"
        /\ HasFlag(processes[n], "--smb-host", "nas1")
        /\ HasFlag(processes[k], "--smb-host", "nas1")

\* ---------------------------------------------------------------- files and transfers API
\* api/files.py and api/transfers.py: the GET handlers, read against the
\* tables of SpecAccess. The FileTransfer rows are fixed: two transfers of
\* file 1 and one of file 2. FileIds and TransferIds are the ids a request may
\* name, one of each naming no row.
Transfers == {[id |-> 1, file_id |-> 1], [id |-> 2, file_id |-> 1], [id |-> 3, file_id |-> 2]}
FileIds == Files \cup {3}
TransferIds == {t.id : t \in Transfers} \cup {4}

\* what the handlers read: the ids of the FileRecord rows, the FileTransfer
\* rows, the owners, the memberships and the grants
Database(files, transfers, owner, gm, pm, gr) ==
    [files |-> files, transfers |-> transfers, owner |-> owner, gm |-> gm, pm |-> pm, gr |-> gr]

Ok(row) == [status |-> 200, detail |-> "", body |-> Some(row)]

\* files.py:40-41 and transfers.py:56-57: no row has the id
NotFound(detail) == [status |-> 404, detail |-> detail, body |-> None]

\* a handler that tells a user the row exists and is not theirs to see
NoAccessForbidden(detail) == [status |-> 403, detail |-> "Forbidden", body |-> None]

\* files.py:57-58 and transfers.py:72-73: the row exists and the user may not
\* see it
NoAccess(detail) == [status |-> 404, detail |-> detail, body |-> None]

\* files.py:17-30: list_files without the instrument filter
ListFiles(db, admins, u) ==
    ApplyFileAccessFilter(db.files, admins, db.owner, db.gm, db.pm, db.gr, u)

\* a check that looks at the grants and not at the owner
CanAccessByGrantOnly(db, u, file_id) ==
    \E f \in db.files : f = file_id /\ f \in AccessibleFileIds(db.gm, db.pm, db.gr, u)

\* files.py:47-56: the exists() query of get_file
CanAccess(db, u, file_id) ==
    \E f \in db.files :
        /\ f = file_id
        /\ db.owner[f] = u \/ f \in AccessibleFileIds(db.gm, db.pm, db.gr, u)

\* files.py:33-60: get_file
GetFile(db, admins, u, file_id) ==
    IF file_id \notin db.files THEN NotFound("File not found")
    ELSE IF u \notin admins /\ ~CanAccess(db, u, file_id) THEN NoAccess("File not found")
    ELSE Ok(file_id)

\* transfers.py:19-41: list_transfers without the file filter
ListTransfers(db, admins, u) ==
    IF u \in admins THEN db.transfers
    ELSE LET accessible == AccessibleFileIds(db.gm, db.pm, db.gr, u)
             visible_files == {f \in db.files : db.owner[f] = u \/ f \in accessible}
         IN  {t \in db.transfers : t.file_id \in visible_files}

\* transfers.py:44-75: get_transfer
GetTransfer(db, admins, u, transfer_id) ==
    LET found == {t \in db.transfers : t.id = transfer_id}
    IN  IF found = {} THEN NotFound("Transfer not found")
        ELSE LET transfer == CHOOSE t \in found : TRUE
                 can_access ==
                     \E f \in db.files :
                         /\ f = transfer.file_id
                         /\ db.owner[f] = u \/ f \in AccessibleFileIds(db.gm, db.pm, db.gr, u)
             IN  IF u \notin admins /\ ~can_access THEN NoAccess("Transfer not found")
                 ELSE Ok(transfer)

\* the database of the state
Current ==
    Database(Files, Transfers, acc_owner, group_memberships, project_memberships,
             file_access_grants)

\* the database without the files H, their transfers and their grants
Without(db, H) ==
    [db EXCEPT !.files = @ \ H,
               !.transfers = {t \in @ : t.file_id \notin H},
               !.gr = {g \in @ : g.file_id \notin H}]

\* everything the four handlers answer user u
Responses(db, u) ==
    [list_files |-> ListFiles(db, acc_admins, u),
     get_file |-> [id \in FileIds |-> GetFile(db, acc_admins, u, id)],
     list_transfers |-> ListTransfers(db, acc_admins, u),
     get_transfer |-> [id \in TransferIds |-> GetTransfer(db, acc_admins, u, id)]]

\* the files user u may not see, by the rule of C7
HiddenFrom(u) == {f \in Files : ~MaySee(u, f)}

\* C35: a user without the admin role who asks for a file or a transfer that
\* exists and that they may not see gets the answer they get for an id that
\* names no row, and the database without any of the files hidden from the
\* user, their transfers and their grants gives the user the same answers
C35_HiddenIsNotFound ==
    \A u \in Users \ acc_admins :
        LET answers == Responses(Current, u)
        IN  /\ \A f \in HiddenFrom(u) : answers.get_file[f] = answers.get_file[3]
            /\ \A t \in Transfers :
                    t.file_id \in HiddenFrom(u)
                        => answers.get_transfer[t.id] = answers.get_transfer[4]
            /\ \A H \in (SUBSET HiddenFrom(u)) \ {{}} :
                    Responses(Without(Current, H), u) = answers

\* user 1, no admin, sees file 2 through a grant and gets its transfer, and may
\* not see file 1, which user 2 owns
C35_Witness ==
    /\ 1 \notin acc_admins
    /\ acc_owner[1] = 2
    /\ HiddenFrom(1) = {1}
    /\ GetFile(Current, acc_admins, 1, 1).status = 404
    /\ GetTransfer(Current, acc_admins, 1, 1).status = 404
    /\ GetTransfer(Current, acc_admins, 1, 3).status = 200

\* C36: the access checks agree. For every user, get_file returns a file
\* exactly when list_files lists it, and a transfer is listed by
\* list_transfers, and returned by get_transfer, exactly when
\* apply_file_access_filter leaves its file to the user
C36_AccessChecksAgree ==
    \A u \in Users :
        /\ \A f \in FileIds :
                (GetFile(Current, acc_admins, u, f) = Ok(f))
                    <=> f \in ListFiles(Current, acc_admins, u)
        /\ \A t \in Transfers :
                /\ t \in ListTransfers(Current, acc_admins, u) <=> t.file_id \in VisibleTo(u)
                /\ (GetTransfer(Current, acc_admins, u, t.id) = Ok(t))
                        <=> t.file_id \in VisibleTo(u)

\* user 1, no admin, owns file 1 without any grant on it and reads it and its
\* transfers, and file 2 is kept from them by all four handlers
C36_Witness ==
    /\ 1 \notin acc_admins
    /\ acc_owner[1] = 1
    /\ ~\E g \in file_access_grants : g.file_id = 1
    /\ file_access_grants # {}
    /\ ListFiles(Current, acc_admins, 1) = {1}
    /\ GetFile(Current, acc_admins, 1, 1).status = 200
    /\ GetFile(Current, acc_admins, 1, 2).status = 404
    /\ {t.id : t \in ListTransfers(Current, acc_admins, 1)} = {1, 2}
    /\ GetTransfer(Current, acc_admins, 1, 3).status = 404


\* ---------------------------------------------------------------- hook scope
\* the execution run r is in has called run_hooks for the pre-transfer trigger
RanPreHooks(r) == \E i \in DOMAIN tasks[r].trace : tasks[r].trace[i] = "pre_hooks"

\* the hook configs of the table that carry the scope of the instrument
ScopedTo(instrument_id) ==
    SelectSeq(HookConfigRows, LAMBDA h : h.instrument_id = Some(instrument_id))

\* the hook configs of the table that do not: those of another instrument and
\* those without scope
ForeignTo(instrument_id) ==
    {HookConfigRows[k] : k \in {x \in DOMAIN HookConfigRows :
                                    HookConfigRows[x].instrument_id # Some(instrument_id)}}

HooksStep(r, pc) == tasks[r].pc = pc /\ tasks'[r] # tasks[r]

RunStep(r) ==
    \/ \E outcome \in DiscoverOutcomes : DiscoverFilesTask(r, outcome)
    \/ \E outcome \in TransferOutcomes : TransferSingleFileTask(r, outcome)

\* harvest_instrument_flow is called for a run that has not been started
\* before: every run is one call of the flow
StartFlowOnce(r, instrument_id) ==
    /\ runs[r].pc = "idle"
    /\ StartFlow(r, instrument_id)

NextFair ==
    \/ \E r \in Runs, instrument_id \in Instruments : StartFlowOnce(r, instrument_id)
    \/ \E r \in Runs : RunStep(r)

\* the harvest of Spec with every call of a started run returning: the event
\* loop resumes a coroutine whose awaited call has returned, so a run that
\* can take a step takes one; whether a flow is started at all is left open
SpecFair == Init /\ [][NextFair]_vars /\ \A r \in Runs : WF_vars(RunStep(r))

\* the committed FileTransfer rows of the file at path of the instrument
TransfersOfFile(instrument_id, path) ==
    {t \in DOMAIN file_transfers :
        /\ file_records[file_transfers[t].file_id].instrument_id = instrument_id
        /\ file_records[file_transfers[t].file_id].source_path = path}

TerminalStatuses == {"completed", "skipped", "failed"}

Ended(r) == runs[r].pc \in {"returned", "raised"}

\* C39: every run that was started eventually returns its summary or raises;
\* when it has returned, every file of its new set has exactly one FileTransfer
\* row, whose status is completed, skipped or failed; and no committed
\* FileTransfer row is pending or in_progress
C39_RunsEndWithTerminalRows ==
    /\ \A r \in Runs : (runs[r].pc # "idle") ~> Ended(r)
    /\ [](\A r \in Runs :
            runs[r].pc = "returned" =>
                \A k \in DOMAIN runs[r].new_files :
                    LET rows == TransfersOfFile(runs[r].instrument_id,
                                                runs[r].new_files[k].path)
                    IN  /\ Cardinality(rows) = 1
                        /\ \A t \in rows : file_transfers[t].status \in TerminalStatuses)
    /\ [](\A t \in DOMAIN file_transfers :
            file_transfers[t].status \notin {"pending", "in_progress"})

\* a run returned the summary of two new files, one transferred and one
\* failed, each with its one FileTransfer row, and the other run raised
C39_Witness ==
    \E r \in Runs, q \in Runs :
        /\ runs[r].pc = "returned"
        /\ Len(runs[r].new_files) = 2
        /\ runs[r].summary.transferred = 1
        /\ runs[r].summary.failed = 1
        /\ \A k \in DOMAIN runs[r].new_files :
              Cardinality(TransfersOfFile(runs[r].instrument_id,
                                          runs[r].new_files[k].path)) = 1
        /\ runs[q].pc = "raised"

====
